---- MODULE Spec2Model ----
(***************************************************************************)
(* ScrapeScript: the tree-walking interpreter (src/interpreter.py) driving *)
(* the tab-based Playwright driver (src/browser/playwright.py).            *)
(*                                                                         *)
(* Strings the program inspects (selectors, texts, attribute values,       *)
(* column names) are sequences of one-character strings, so that           *)
(* startswith, split and strip are computed and not assumed.               *)
(***************************************************************************)
EXTENDS Integers, Sequences, FiniteSets, TLC

\* ------------------------------------------------------------------ bounds
\* Number of rows of the optional data feed (0 rows is a legal feed).
MaxDataRows == 2
\* longest text handed to substitute_variables by the substitution properties
MaxTextLen == 3
\* tabs a client of the driver opens, and calls of cleanup() it makes
MaxTabs == 3
MaxCleanups == 3
\* script texts: characters of a short text, phrases of a script, words of a
\* condition
MaxSourceLen == 4
MaxPhrases == 4
MaxConditionLen == 5
\* iterations of a parser loop that consume nothing, as far as they are counted
MaxIdle == 2
\* non-blank lines of a file of steps for the legacy StackMachine
MaxLines == 3
\* rows a StackMachine run saves before the model stops following it
MaxSaved == 2

\* ------------------------------------------------------ program constants
max_iterations == 1000

\* ------------------------------------------------------------- strings
SP == " "
AT == "@"
DOLLAR == "$"

startswith(s, c) == Len(s) > 0 /\ s[1] = c

contains(s, c) == \E i \in 1..Len(s) : s[i] = c

\* index of the first occurrence of c in s (0 when absent)
find(s, c) ==
  IF contains(s, c) THEN CHOOSE i \in 1..Len(s) : s[i] = c /\ \A j \in 1..(i-1) : s[j] # c
  ELSE 0

\* str.split(' ', 1) of a string that contains a space: <<head, rest>>
SplitAt(s, k) == <<SubSeq(s, 1, k - 1), SubSeq(s, k + 1, Len(s))>>

split1(s) == SplitAt(s, find(s, SP))

RECURSIVE lstrip(_)
lstrip(s) == IF Len(s) > 0 /\ s[1] = SP THEN lstrip(Tail(s)) ELSE s

RECURSIVE rstrip(_)
rstrip(s) == IF Len(s) > 0 /\ s[Len(s)] = SP THEN rstrip(SubSeq(s, 1, Len(s) - 1)) ELSE s

\* str.strip()
strip(s) == rstrip(lstrip(s))

\* ------------------------------------------------------------- values
\* A cell of a row: None, a string, or a list of strings.
None == [kind |-> "none", s |-> <<>>, l |-> <<>>]
StrV(s) == [kind |-> "str", s |-> s, l |-> <<>>]
ListV(l) == [kind |-> "list", s |-> <<>>, l |-> l]

HREF == <<"h", "r", "e", "f">>

\* ------------------------------------------------------------- pages
\* A page is a small DOM: nodes 1..n in document order, parent 0 = document.
\* attrs[i] maps the attribute names present on node i to their values.
Blank == [parent |-> <<>>, tag |-> <<>>, text |-> <<>>, attrs |-> <<>>]

\* <u><l><a href=" /x "> X </a></l><l><a>Y</a></l></u>
PageList ==
  [parent |-> <<0, 1, 2, 1, 4>>,
   tag    |-> <<"u", "l", "a", "l", "a">>,
   text   |-> << <<>>, <<>>, <<SP, "X", SP>>, <<>>, <<"Y">> >>,
   attrs  |-> << <<>>, <<>>, (HREF :> <<SP, "/", "x", SP>>), <<>>, <<>> >>]

\* <a href="">Z</a><b>W</b>
PageFlat ==
  [parent |-> <<0, 0>>,
   tag    |-> <<"a", "b">>,
   text   |-> << <<"Z">>, <<"W">> >>,
   attrs  |-> << (HREF :> <<>>), <<>> >>]

\* <l><a href=" ">V</a></l>
PageOne ==
  [parent |-> <<0, 1>>,
   tag    |-> <<"l", "a">>,
   text   |-> << <<>>, <<"V">> >>,
   attrs  |-> << <<>>, (HREF :> <<SP>>) >>]

Pages == <<Blank, PageList, PageFlat, PageOne>>

NodesOf(dom) == 1..Len(dom.tag)

RECURSIVE Ancestors(_, _)
Ancestors(dom, n) ==
  IF dom.parent[n] = 0 THEN {} ELSE {dom.parent[n]} \cup Ancestors(dom, dom.parent[n])

\* a css selector is a descendant chain of tag names: "l a"
RECURSIVE CssTokens(_)
CssTokens(css) ==
  IF contains(css, SP) THEN <<Head(split1(css))>> \o CssTokens(split1(css)[2]) ELSE <<css>>

\* the driver rejects text that is not a selector ('@v', '', 'a  b')
ValidTokens(toks) ==
  \A i \in 1..Len(toks) : Len(toks[i]) = 1 /\ toks[i][1] \notin {AT, DOLLAR, SP}

RECURSIVE MatchesCss(_, _, _)
MatchesCss(dom, n, toks) ==
  /\ <<dom.tag[n]>> = toks[Len(toks)]
  /\ \/ Len(toks) = 1
     \/ \E a \in Ancestors(dom, n) : MatchesCss(dom, a, SubSeq(toks, 1, Len(toks) - 1))

\* the members of a set of nodes in document order
RECURSIVE InOrder(_)
InOrder(S) ==
  IF S = {} THEN <<>>
  ELSE LET m == CHOOSE x \in S : \A y \in S : x <= y IN <<m>> \o InOrder(S \ {m})

\* Result of a driver call or of a resolution: ok is FALSE when it raised,
\* els are the elements found, log the driver queries it issued, in order.
Raised(log) == [ok |-> FALSE, els |-> <<>>, log |-> log]
Found(els, log) == [ok |-> TRUE, els |-> els, log |-> log]

\* ------------------------------------------------------------- driver
\* PlaywrightAutomation: tabs holds the page shown by each tab (an index
\* into Pages), current_tab_index is 0-based as in the source.
\* _current_page: has is FALSE for None
_current_page(tabs, idx) ==
  IF 0 <= idx /\ idx < Len(tabs) THEN [has |-> TRUE, dom |-> Pages[tabs[idx + 1]]]
  ELSE [has |-> FALSE, dom |-> Blank]

\* the nodes of scope that match the selector, or the selector is rejected
Matching(dom, toks, scope, log) ==
  IF ~ValidTokens(toks) THEN Raised(log)
  ELSE Found(InOrder({n \in scope : MatchesCss(dom, n, toks)}), log)

query_selector_all(pg, css) ==
  IF ~pg.has THEN Found(<<>>, <<[scope |-> "page", css |-> css]>>)
  ELSE Matching(pg.dom, CssTokens(css), NodesOf(pg.dom), <<[scope |-> "page", css |-> css]>>)

\* PlaywrightElement.query_all: matches inside the element's subtree
query_all(dom, el, css) ==
  Matching(dom, CssTokens(css), {n \in NodesOf(dom) : el \in Ancestors(dom, n)},
           <<[scope |-> "element", css |-> css]>>)

\* query_selector, PlaywrightElement.query: the first match; an
\* Optional[Element] is a list of at most one element
FirstOf(r) == IF r.ok /\ Len(r.els) > 0 THEN [r EXCEPT !.els = <<r.els[1]>>] ELSE r

\* text_content() or "" : never None
extract_text(dom, el) == dom.text[el]

\* get_attribute: the value, or None when the element lacks the attribute
extract_attribute(dom, el, attribute) ==
  IF attribute \in DOMAIN dom.attrs[el] THEN StrV(dom.attrs[el][attribute]) ELSE None

\* ------------------------------------------------------------- selectors
\* A Selector is the chain from its outermost parent down to itself; each
\* link holds css and index, index <<>> standing for None.
Selector(css, parent, index) == parent \o <<[css |-> css, index |-> index]>>

css_selector(selector) == selector[Len(selector)].css

\* a lookup that gives no variable an index
IndexOfNone(var_name, foreach_indexes) == <<>>

\* the index of a foreach variable, None for any other name
IndexOf(var_name, foreach_indexes) ==
  IF var_name \in DOMAIN foreach_indexes THEN <<foreach_indexes[var_name]>> ELSE <<>>

\* a lookup that takes an unknown name for a css selector
ReferenceUnchecked(var_name, element_references, foreach_indexes) ==
  [ok |-> TRUE,
   sel |-> Selector(IF var_name \in DOMAIN element_references
                    THEN element_references[var_name] ELSE var_name,
                    <<>>, IndexOf(var_name, foreach_indexes))]

\* the Selector of a reference: ok is FALSE for "Unknown element reference"
Reference(var_name, element_references, foreach_indexes) ==
  IF var_name \notin DOMAIN element_references THEN [ok |-> FALSE, sel |-> <<>>]
  ELSE [ok |-> TRUE,
        sel |-> Selector(element_references[var_name], <<>>,
                         IndexOf(var_name, foreach_indexes))]

\* the child selector of a parent reference
Child(parent_selector, child_selector) ==
  [parent_selector EXCEPT !.sel = Selector(child_selector, @, <<>>)]

create_selector(selector_str, element_references, foreach_indexes) ==
  IF contains(selector_str, SP) /\ startswith(selector_str, AT) THEN
    Child(Reference(Head(split1(selector_str)), element_references, foreach_indexes),
          split1(selector_str)[2])
  ELSE IF startswith(selector_str, AT) THEN
    Reference(selector_str, element_references, foreach_indexes)
  ELSE [ok |-> TRUE, sel |-> Selector(selector_str, <<>>, <<>>)]

\* [ok, sels]: ok is FALSE when some string names an unknown reference
Collected(created) ==
  [ok   |-> \A i \in 1..Len(created) : created[i].ok,
   sels |-> [i \in 1..Len(created) |-> created[i].sel]]

create_selectors(selector_strings, element_references, foreach_indexes) ==
  Collected([i \in 1..Len(selector_strings) |->
               create_selector(selector_strings[i], element_references, foreach_indexes)])

\* an indexing that fails when the index is out of range
PickStrict(index, r) ==
  IF index = <<>> THEN FirstOf(r)
  ELSE IF ~r.ok THEN r
  ELSE IF Len(r.els) > 0 /\ 0 <= index[1] /\ index[1] < Len(r.els)
  THEN [r EXCEPT !.els = <<r.els[index[1] + 1]>>]
  ELSE Raised(r.log)

\* elements[index] when 0 <= index < len(elements), else None; the first
\* element when the selector has no index
Pick(index, r) ==
  IF index = <<>> THEN FirstOf(r)
  ELSE IF ~r.ok THEN r
  ELSE IF Len(r.els) > 0 /\ 0 <= index[1] /\ index[1] < Len(r.els)
  THEN [r EXCEPT !.els = <<r.els[index[1] + 1]>>]
  ELSE [r EXCEPT !.els = <<>>]

\* r, with the queries of an earlier call put before its own
After(log, r) == [r EXCEPT !.log = log \o @]

\* the part of resolve_selector below "Resolve parent first"
InParent(self, parent_element, dom) ==
  IF ~parent_element.ok \/ parent_element.els = <<>> THEN parent_element
  ELSE After(parent_element.log,
             Pick(self.index, query_all(dom, parent_element.els[1], self.css)))

RECURSIVE resolve_selector(_, _)
resolve_selector(selector, pg) ==
  IF Len(selector) = 1
  THEN Pick(selector[1].index, query_selector_all(pg, selector[1].css))
  ELSE InParent(selector[Len(selector)],
                resolve_selector(SubSeq(selector, 1, Len(selector) - 1), pg), pg.dom)

\* for selector in selectors: the first that resolves to an element; which
\* is its position (0: none)
RECURSIVE FirstResolving(_, _, _), ElseNext(_, _, _, _)
FirstResolving(selectors, i, pg) ==
  IF i > Len(selectors) THEN [ok |-> TRUE, els |-> <<>>, log |-> <<>>, which |-> 0]
  ELSE ElseNext(resolve_selector(selectors[i], pg), selectors, i, pg)

\* the body of that loop
ElseNext(element, selectors, i, pg) ==
  IF ~element.ok \/ element.els # <<>>
  THEN [ok |-> element.ok, els |-> element.els, log |-> element.log, which |-> i]
  ELSE After(element.log, FirstResolving(selectors, i + 1, pg))

resolve_selectors(selectors, pg) == FirstResolving(selectors, 1, pg)

\* no resolution: create_selectors raised before any query
Unresolved == [ok |-> FALSE, els |-> <<>>, log |-> <<>>, which |-> 0]

\* the part of resolve_all_elements below the parent's resolution
AllInParent(self, parent_element, dom) ==
  IF ~parent_element.ok \/ parent_element.els = <<>> THEN parent_element
  ELSE After(parent_element.log, query_all(dom, parent_element.els[1], self.css))

resolve_all_elements(selector, pg) ==
  IF Len(selector) = 1 THEN query_selector_all(pg, selector[1].css)
  ELSE AllInParent(selector[Len(selector)],
                   resolve_selector(SubSeq(selector, 1, Len(selector) - 1), pg), pg.dom)

\* for i, selector in enumerate(selector_objects): the elements of the first
\* selector that resolves to a non-empty list, and its position (0: none).
\* lenient: a selector whose resolution raises is skipped (foreach).
RECURSIVE FirstWorking(_, _, _, _), ElseNextAll(_, _, _, _, _)
FirstWorking(selector_objects, i, pg, lenient) ==
  IF i > Len(selector_objects) THEN [ok |-> TRUE, els |-> <<>>, log |-> <<>>, which |-> 0]
  ELSE ElseNextAll(resolve_all_elements(selector_objects[i], pg), selector_objects, i, pg,
                   lenient)

ElseNextAll(elements, selector_objects, i, pg, lenient) ==
  IF (~elements.ok /\ ~lenient) \/ (elements.ok /\ elements.els # <<>>)
  THEN [ok |-> elements.ok, els |-> elements.els, log |-> elements.log, which |-> i]
  ELSE After(elements.log, FirstWorking(selector_objects, i + 1, pg, lenient))

\* ------------------------------------------------------------- data feed
WordChars ==
  {"a", "b", "c", "d", "e", "f", "g", "h", "i", "j", "k", "l", "m", "n", "o", "p", "q",
   "r", "s", "t", "u", "v", "w", "x", "y", "z", "A", "B", "C", "D", "E", "F", "G", "H",
   "I", "J", "K", "L", "M", "N", "O", "P", "Q", "R", "S", "T", "U", "V", "W", "X", "Y",
   "Z", "0", "1", "2", "3", "4", "5", "6", "7", "8", "9", "_"}

\* the value of a $variable, or None
\* a lookup that takes the declared column for the value without a data row
resolve_variable_rowless(var_ref, data_schema, current_data_row) ==
  IF ~startswith(var_ref, DOLLAR) THEN StrV(var_ref)
  ELSE IF var_ref \in DOMAIN data_schema THEN StrV(data_schema[var_ref])
  ELSE None

resolve_variable(var_ref, data_schema, current_data_row) ==
  IF ~startswith(var_ref, DOLLAR) THEN StrV(var_ref)
  ELSE IF var_ref \in DOMAIN data_schema /\ data_schema[var_ref] \in DOMAIN current_data_row
  THEN StrV(current_data_row[data_schema[var_ref]])
  ELSE None

\* length of the longest run of word characters of s starting at position i
RECURSIVE WordRun(_, _)
WordRun(s, i) == IF i <= Len(s) /\ s[i] \in WordChars THEN 1 + WordRun(s, i + 1) ELSE 0

\* replace_var: the value of the variable, the name itself when it has none
Replacement(var_name, value) == IF value # None THEN value.s ELSE var_name

\* re.sub(r'(\$[a-zA-Z0-9_]+)', replace_var, text), scanning from position i
RECURSIVE ReSub(_, _, _, _), ReSubAt(_, _, _, _, _)
ReSub(text, i, data_schema, current_data_row) ==
  IF i > Len(text) THEN <<>>
  ELSE IF text[i] = DOLLAR THEN ReSubAt(text, i, WordRun(text, i + 1), data_schema,
                                        current_data_row)
  ELSE <<text[i]>> \o ReSub(text, i + 1, data_schema, current_data_row)

\* a $ at position i followed by run word characters
ReSubAt(text, i, run, data_schema, current_data_row) ==
  IF run = 0 THEN <<text[i]>> \o ReSub(text, i + 1, data_schema, current_data_row)
  ELSE Replacement(SubSeq(text, i, i + run),
                   resolve_variable(SubSeq(text, i, i + run), data_schema, current_data_row))
         \o ReSub(text, i + 1 + run, data_schema, current_data_row)

substitute_variables(text, data_schema, current_data_row) ==
  IF text = <<>> \/ ~contains(text, DOLLAR) THEN text
  ELSE ReSub(text, 1, data_schema, current_data_row)

SubstituteAll(selectors, data_schema, current_data_row) ==
  [i \in 1..Len(selectors) |-> substitute_variables(selectors[i], data_schema, current_data_row)]

\* ------------------------------------------------------------- AST
\* ASTNode: every statement carries all payload slots, unused ones empty.
Node(t) ==
  [type |-> t, url |-> <<>>, column_name |-> <<>>, value |-> <<>>, message |-> <<>>,
   attribute |-> <<>>, selectors |-> <<>>, condition |-> <<>>, true_branch |-> <<>>,
   else_if_branches |-> <<>>, false_branch |-> <<>>, element_var_name |-> <<>>,
   loop_body |-> <<>>, children |-> <<>>]

GotoUrl(u) == [Node("GOTO_URL") EXCEPT !.url = u]
GotoHref(sels) == [Node("GOTO_HREF") EXCEPT !.selectors = sels]
Extract(c, sels) == [Node("EXTRACT") EXCEPT !.column_name = c, !.selectors = sels]
ExtractList(c, sels) == [Node("EXTRACT_LIST") EXCEPT !.column_name = c, !.selectors = sels]
ExtractAttribute(c, a, sels) ==
  [Node("EXTRACT_ATTRIBUTE") EXCEPT !.column_name = c, !.attribute = a, !.selectors = sels]
ExtractAttributeList(c, a, sels) ==
  [Node("EXTRACT_ATTRIBUTE_LIST") EXCEPT !.column_name = c, !.attribute = a, !.selectors = sels]
SaveRow == Node("SAVE_ROW")
ClearRow == Node("CLEAR_ROW")
SetField(c, v) == [Node("SET_FIELD") EXCEPT !.column_name = c, !.value = v]
Click(sels) == [Node("CLICK") EXCEPT !.selectors = sels]
HistoryBack == Node("HISTORY_BACK")
HistoryForward == Node("HISTORY_FORWARD")
Log(m) == [Node("LOG") EXCEPT !.message = m]
Throw(m) == [Node("THROW") EXCEPT !.message = m]
Timestamp(c) == [Node("TIMESTAMP") EXCEPT !.column_name = c]
Exit == Node("EXIT")
If(c, t, ei, f) ==
  [Node("IF") EXCEPT !.condition = c, !.true_branch = t, !.else_if_branches = ei,
                     !.false_branch = f]
Foreach(sels, v, body) ==
  [Node("FOREACH") EXCEPT !.selectors = sels, !.element_var_name = v, !.loop_body = body]
While(c, body) == [Node("WHILE") EXCEPT !.condition = c, !.loop_body = body]
Select(sels, v) == [Node("SELECT") EXCEPT !.selectors = sels, !.element_var_name = v]
\* children: <<column_name, $variable>> pairs (VARIABLE_DECLARATION nodes)
DataSchema(decls) == [Node("DATA_SCHEMA") EXCEPT !.children = decls]

Exists(sels) == [type |-> "CONDITION_EXISTS", selectors |-> sels]
And(l, r) == [type |-> "CONDITION_AND", left |-> l, right |-> r]
Or(l, r) == [type |-> "CONDITION_OR", left |-> l, right |-> r]
Not(c) == [type |-> "CONDITION_NOT", operand |-> c]

\* ------------------------------------------------------------- conditions
\* Result of a condition: res is "true", "false" or "raise"; log as above.
Cond(res, log) == [res |-> res, log |-> log]

\* for selector in selector_objects: True at the first that resolves
ExistsResult(selector_objects, found) ==
  IF ~selector_objects.ok THEN Cond("raise", <<>>)
  ELSE Cond(IF ~found.ok THEN "raise" ELSE IF found.els # <<>> THEN "true" ELSE "false",
            found.log)

Negated(result) ==
  IF result.res = "raise" THEN result
  ELSE Cond(IF result.res = "true" THEN "false" ELSE "true", result.log)

\* env: the interpreter state and the page a condition reads
RECURSIVE evaluate_condition(_, _), Exists_(_, _), And_(_, _, _), Or_(_, _, _)
evaluate_condition(node, env) ==
  IF node.type = "CONDITION_EXISTS" THEN
    Exists_(create_selectors(SubstituteAll(node.selectors, env.data_schema,
                                           env.current_data_row),
                             env.element_references, env.foreach_indexes),
            env.pg)
  ELSE IF node.type = "CONDITION_AND" THEN
    And_(evaluate_condition(node.left, env), node.right, env)
  ELSE IF node.type = "CONDITION_OR" THEN
    Or_(evaluate_condition(node.left, env), node.right, env)
  ELSE IF node.type = "CONDITION_NOT" THEN Negated(evaluate_condition(node.operand, env))
  ELSE Cond("raise", <<>>)

Exists_(selector_objects, pg) ==
  ExistsResult(selector_objects,
               IF selector_objects.ok THEN FirstResolving(selector_objects.sels, 1, pg)
               ELSE Unresolved)

\* an and that evaluates its right operand whatever the left one is
And_unguarded(left_result, right, env) ==
  IF left_result.res = "raise" THEN left_result
  ELSE After(left_result.log, evaluate_condition(right, env))

\* short-circuit: the right operand is evaluated only after a true left one
And_(left_result, right, env) ==
  IF left_result.res # "true" THEN left_result
  ELSE After(left_result.log, evaluate_condition(right, env))

\* short-circuit: the right operand is evaluated only after a false left one
Or_(left_result, right, env) ==
  IF left_result.res # "false" THEN left_result
  ELSE After(left_result.log, evaluate_condition(right, env))

\* the else_if branch to run: res is "taken" (branch which), "none" or "raise"
RECURSIVE ElseIfChoice(_, _, _), ElseIfNext(_, _, _, _)
ElseIfChoice(else_if_branches, i, env) ==
  IF i > Len(else_if_branches) THEN [res |-> "none", which |-> 0, log |-> <<>>]
  ELSE ElseIfNext(evaluate_condition(else_if_branches[i][1], env), else_if_branches, i, env)

\* an else_if loop without its break: the conditions after the first true
\* one are evaluated too
ElseIfTaken(i, rest) ==
  [res |-> IF rest.res = "raise" THEN "raise" ELSE "taken",
   which |-> IF rest.res = "raise" THEN rest.which ELSE i, log |-> rest.log]

ElseIfNextUnbroken(else_if_result, else_if_branches, i, env) ==
  IF else_if_result.res = "raise"
  THEN [res |-> "raise", which |-> i, log |-> else_if_result.log]
  ELSE IF else_if_result.res = "false"
  THEN After(else_if_result.log, ElseIfChoice(else_if_branches, i + 1, env))
  ELSE ElseIfTaken(i, After(else_if_result.log, ElseIfChoice(else_if_branches, i + 1, env)))

ElseIfNext(else_if_result, else_if_branches, i, env) ==
  IF else_if_result.res = "false"
  THEN After(else_if_result.log, ElseIfChoice(else_if_branches, i + 1, env))
  ELSE [res |-> IF else_if_result.res = "true" THEN "taken" ELSE "raise", which |-> i,
        log |-> else_if_result.log]

\* add the declarations of a data_schema block to the schema
RECURSIVE Declare(_, _)
Declare(schema, children) ==
  IF children = <<>> THEN schema
  ELSE Declare([x \in (DOMAIN schema) \cup {children[1][2]} |->
                  IF x = children[1][2] THEN children[1][1] ELSE schema[x]],
               Tail(children))

\* ------------------------------------------------------------- lexer
NL == "\n"
TAB == "\t"
QUOTE == "'"
DQUOTE == "\""
BACKSLASH == "\\"
HASH == "#"
\* current_char is None
NoChar == ""

LowerLetters ==
  <<"a", "b", "c", "d", "e", "f", "g", "h", "i", "j", "k", "l", "m", "n", "o", "p", "q", "r",
    "s", "t", "u", "v", "w", "x", "y", "z">>

UpperLetters ==
  <<"A", "B", "C", "D", "E", "F", "G", "H", "I", "J", "K", "L", "M", "N", "O", "P", "Q", "R",
    "S", "T", "U", "V", "W", "X", "Y", "Z">>

Digits == {"0", "1", "2", "3", "4", "5", "6", "7", "8", "9"}

isalpha(c) == \E i \in 1..Len(LowerLetters) : c = LowerLetters[i] \/ c = UpperLetters[i]

isalnum(c) == isalpha(c) \/ c \in Digits

isspace(c) == c \in {SP, TAB, NL, "\r"}

\* str.lower()
lower(s) ==
  [k \in 1..Len(s) |->
     IF \E i \in 1..Len(UpperLetters) : s[k] = UpperLetters[i]
     THEN LowerLetters[CHOOSE i \in 1..Len(UpperLetters) : s[k] = UpperLetters[i]]
     ELSE s[k]]

\* Lexer.RESERVED_KEYWORDS.get(word, TokenType.IDENTIFIER)
RESERVED_KEYWORDS(word) ==
  IF word = <<"i", "f">> THEN "IF"
  ELSE IF word = <<"e", "l", "s", "e">> THEN "ELSE"
  ELSE IF word = <<"e", "l", "s", "e", "_", "i", "f">> THEN "ELSE_IF"
  ELSE IF word = <<"e", "n", "d", "_", "i", "f">> THEN "END_IF"
  ELSE IF word = <<"a", "n", "d">> THEN "AND"
  ELSE IF word = <<"o", "r">> THEN "OR"
  ELSE IF word = <<"n", "o", "t">> THEN "NOT"
  ELSE IF word = <<"f", "o", "r", "e", "a", "c", "h">> THEN "FOREACH"
  ELSE IF word = <<"e", "n", "d", "_", "f", "o", "r", "e", "a", "c", "h">> THEN "END_FOREACH"
  ELSE IF word = <<"w", "h", "i", "l", "e">> THEN "WHILE"
  ELSE IF word = <<"e", "n", "d", "_", "w", "h", "i", "l", "e">> THEN "END_WHILE"
  ELSE IF word = <<"a", "s">> THEN "AS"
  ELSE IF word = <<"s", "e", "l", "e", "c", "t">> THEN "SELECT"
  ELSE "IDENTIFIER"

Token(type, value, line, column) ==
  [type |-> type, value |-> value, line |-> line, column |-> column]

\* an error of the front end: its class, its message, the position the
\* message cites (0 when it cites none) and the offset of the text it is about
NoError == [kind |-> "none", what |-> "none", line |-> 0, column |-> 0, start |-> 0]

FrontError(kind, what, line, column, start) ==
  [kind |-> kind, what |-> what, line |-> line, column |-> column, start |-> start]

\* what a lexer method returns, or raises
Lexed(token, lx) == [ok |-> TRUE, token |-> token, lx |-> lx, error |-> NoError]

LexerRaised(error, lx) ==
  [ok |-> FALSE, token |-> Token("EOF", <<>>, 0, 0), lx |-> lx, error |-> error]

\* Lexer.__init__
NewLexer == [pos |-> 0, line |-> 1, column |-> 1]

current_char(text, lx) == IF lx.pos < Len(text) THEN text[lx.pos + 1] ELSE NoChar

\* the line counter moves when the character left behind is a newline and
\* the text goes on
advance(text, lx) ==
  IF lx.pos + 1 < Len(text) /\ current_char(text, lx) = NL
  THEN [pos |-> lx.pos + 1, line |-> lx.line + 1, column |-> 1]
  ELSE [pos |-> lx.pos + 1, line |-> lx.line, column |-> lx.column + 1]

RECURSIVE skip_whitespace(_, _)
skip_whitespace(text, lx) ==
  IF current_char(text, lx) # NoChar /\ isspace(current_char(text, lx))
     /\ current_char(text, lx) # NL
  THEN skip_whitespace(text, advance(text, lx))
  ELSE lx

\* while self.current_char and self.current_char != '\n': self.advance()
RECURSIVE SkipLine(_, _)
SkipLine(text, lx) ==
  IF current_char(text, lx) # NoChar /\ current_char(text, lx) # NL
  THEN SkipLine(text, advance(text, lx))
  ELSE lx

skip_comment(text, lx) == SkipLine(text, advance(text, lx))

\* the while loop of identifier(): <<result, lexer>>
RECURSIVE IdentifierRun(_, _, _)
IdentifierRun(text, lx, result) ==
  IF current_char(text, lx) # NoChar
     /\ (isalnum(current_char(text, lx)) \/ current_char(text, lx) = "_")
  THEN IdentifierRun(text, advance(text, lx), Append(result, current_char(text, lx)))
  ELSE <<result, lx>>

IdentifierToken(run, start_column) ==
  Lexed(Token(IF startswith(run[1], AT) THEN "IDENTIFIER" ELSE RESERVED_KEYWORDS(lower(run[1])),
              run[1], run[2].line, start_column),
        run[2])

identifier(text, lx) ==
  IdentifierToken(IF current_char(text, lx) = AT
                  THEN IdentifierRun(text, advance(text, lx), <<AT>>)
                  ELSE IdentifierRun(text, lx, <<>>),
                  lx.column)

\* what an escape sequence adds to the string
Escaped(c, quote_char) ==
  IF c = quote_char THEN <<quote_char>>
  ELSE IF c = "n" THEN <<NL>>
  ELSE IF c = "t" THEN <<TAB>>
  ELSE IF c = BACKSLASH THEN <<BACKSLASH>>
  ELSE <<BACKSLASH, c>>

\* the while loop of string(): <<result, lexer>>
RECURSIVE StringRun(_, _, _, _)
StringRun(text, lx, quote_char, result) ==
  IF current_char(text, lx) = NoChar \/ current_char(text, lx) = quote_char
  THEN <<result, lx>>
  ELSE IF current_char(text, lx) = BACKSLASH /\ lx.pos + 1 < Len(text)
  THEN StringRun(text, advance(text, advance(text, lx)), quote_char,
                 result \o Escaped(current_char(text, advance(text, lx)), quote_char))
  ELSE StringRun(text, advance(text, lx), quote_char, Append(result, current_char(text, lx)))

\* the end of string(): the error cites the line the lexer is on
StringToken(text, run, start_column, start) ==
  IF current_char(text, run[2]) = NoChar
  THEN LexerRaised(FrontError("SyntaxError", "Unterminated string", run[2].line, start_column,
                              start),
                   run[2])
  ELSE Lexed(Token("STRING", run[1], run[2].line, start_column), advance(text, run[2]))

string(text, lx) ==
  StringToken(text, StringRun(text, advance(text, lx), current_char(text, lx), <<>>),
              lx.column, lx.pos)

Punctuation(c) == IF c = "(" THEN "LPAREN" ELSE IF c = ")" THEN "RPAREN" ELSE "COMMA"

RECURSIVE get_next_token(_, _)
get_next_token(text, lx) ==
  IF current_char(text, lx) = NoChar THEN Lexed(Token("EOF", <<>>, lx.line, lx.column), lx)
  ELSE IF isspace(current_char(text, lx)) /\ current_char(text, lx) # NL
  THEN get_next_token(text, skip_whitespace(text, lx))
  ELSE IF current_char(text, lx) = HASH THEN get_next_token(text, skip_comment(text, lx))
  ELSE IF current_char(text, lx) = NL
  THEN Lexed(Token("NEWLINE", <<NL>>, lx.line, lx.column), advance(text, lx))
  ELSE IF isalpha(current_char(text, lx)) \/ current_char(text, lx) \in {"_", AT}
  THEN identifier(text, lx)
  ELSE IF current_char(text, lx) \in {DQUOTE, QUOTE} THEN string(text, lx)
  ELSE IF current_char(text, lx) \in {"(", ")", ","}
  THEN Lexed(Token(Punctuation(current_char(text, lx)), <<current_char(text, lx)>>, lx.line,
                   lx.column),
             advance(text, lx))
  ELSE LexerRaised(FrontError("SyntaxError", "Invalid character", lx.line, lx.column, lx.pos),
                   lx)

\* tokenize(): the tokens up to and including EOF, or the error raised
RECURSIVE TokenizeFrom(_, _, _)
TokenizeFrom(text, got, toks) ==
  IF ~got.ok THEN [ok |-> FALSE, tokens |-> toks, error |-> got.error]
  ELSE IF got.token.type = "EOF"
  THEN [ok |-> TRUE, tokens |-> Append(toks, got.token), error |-> NoError]
  ELSE TokenizeFrom(text, get_next_token(text, got.lx), Append(toks, got.token))

tokenize(text) == TokenizeFrom(text, get_next_token(text, NewLexer), <<>>)

\* ------------------------------------------------------------- parser
\* what a parser method returns (the node, the position after it), or raises
Parsed(made, pos) == [ok |-> TRUE, node |-> made, pos |-> pos, error |-> NoError]

ParserRaised(error) == [ok |-> FALSE, node |-> <<>>, pos |-> 0, error |-> error]

\* self.current_token: the token list ends with EOF, which is never consumed
current_token(toks, pos) == toks[pos + 1]

\* Parser.eat: the message names the two token types and no position
eat(toks, pos, token_type) ==
  IF current_token(toks, pos).type = token_type THEN Parsed(current_token(toks, pos), pos + 1)
  ELSE ParserRaised(FrontError("SyntaxError", "Expected token", 0, 0, pos))

RECURSIVE skip_newlines(_, _)
skip_newlines(toks, pos) ==
  IF current_token(toks, pos).type = "NEWLINE" THEN skip_newlines(toks, pos + 1) ELSE pos

\* the selectors after the first one
RECURSIVE SelectorListRest(_, _, _)
SelectorListRest(toks, pos, selectors) ==
  IF current_token(toks, pos).type # "COMMA" THEN Parsed(selectors, pos)
  ELSE IF current_token(toks, pos + 1).type # "STRING" THEN eat(toks, pos + 1, "STRING")
  ELSE SelectorListRest(toks, pos + 2, Append(selectors, current_token(toks, pos + 1).value))

parse_selector_list(toks, pos) ==
  IF current_token(toks, pos).type # "STRING" THEN eat(toks, pos, "STRING")
  ELSE SelectorListRest(toks, pos + 1, <<current_token(toks, pos).value>>)

\* n calls of self.eat(TokenType.STRING): the values eaten
RECURSIVE EatStrings(_, _, _, _)
EatStrings(toks, pos, n, values) ==
  IF n = 0 THEN Parsed(values, pos)
  ELSE IF current_token(toks, pos).type # "STRING" THEN eat(toks, pos, "STRING")
  ELSE EatStrings(toks, pos + 1, n - 1, Append(values, current_token(toks, pos).value))

\* the command table of parse_statement: the node type, the number of string
\* arguments and whether a selector list follows
Command(name, type, strings, selectors) ==
  [name |-> name, type |-> type, strings |-> strings, selectors |-> selectors]

CommandTable ==
  <<
    Command(<<"g", "o", "t", "o", "_", "u", "r", "l">>,
            "GOTO_URL", 1, FALSE),
    Command(<<"g", "o", "t", "o", "_", "h", "r", "e", "f">>,
            "GOTO_HREF", 0, TRUE),
    Command(<<"e", "x", "t", "r", "a", "c", "t">>,
            "EXTRACT", 1, TRUE),
    Command(<<"e", "x", "t", "r", "a", "c", "t", "_", "l", "i", "s", "t">>,
            "EXTRACT_LIST", 1, TRUE),
    Command(<<"e", "x", "t", "r", "a", "c", "t", "_", "a", "t", "t", "r", "i", "b", "u", "t", "e">>,
            "EXTRACT_ATTRIBUTE", 2, TRUE),
    Command(<<"e", "x", "t", "r", "a", "c", "t", "_", "a", "t", "t", "r", "i", "b", "u", "t", "e", "_", "l", "i", "s", "t">>,
            "EXTRACT_ATTRIBUTE_LIST", 2, TRUE),
    Command(<<"s", "a", "v", "e", "_", "r", "o", "w">>,
            "SAVE_ROW", 0, FALSE),
    Command(<<"c", "l", "e", "a", "r", "_", "r", "o", "w">>,
            "CLEAR_ROW", 0, FALSE),
    Command(<<"s", "e", "t", "_", "f", "i", "e", "l", "d">>,
            "SET_FIELD", 2, FALSE),
    Command(<<"l", "o", "g">>,
            "LOG", 1, FALSE),
    Command(<<"h", "i", "s", "t", "o", "r", "y", "_", "f", "o", "r", "w", "a", "r", "d">>,
            "HISTORY_FORWARD", 0, FALSE),
    Command(<<"h", "i", "s", "t", "o", "r", "y", "_", "b", "a", "c", "k">>,
            "HISTORY_BACK", 0, FALSE),
    Command(<<"c", "l", "i", "c", "k">>,
            "CLICK", 0, TRUE),
    Command(<<"t", "h", "r", "o", "w">>,
            "THROW", 1, FALSE),
    Command(<<"t", "i", "m", "e", "s", "t", "a", "m", "p">>,
            "TIMESTAMP", 1, FALSE),
    Command(<<"e", "x", "i", "t">>,
            "EXIT", 0, FALSE)
  >>

\* the branch of parse_statement an identifier selects ("none": the else branch)
Commands(name) ==
  IF \E i \in 1..Len(CommandTable) : CommandTable[i].name = name
  THEN CommandTable[CHOOSE i \in 1..Len(CommandTable) : CommandTable[i].name = name]
  ELSE Command(name, "none", 0, FALSE)

\* the ASTNode a parse_<command> method returns
CommandNode(type, values, selectors) ==
  IF type = "GOTO_URL" THEN GotoUrl(values[1])
  ELSE IF type = "GOTO_HREF" THEN GotoHref(selectors)
  ELSE IF type = "EXTRACT" THEN Extract(values[1], selectors)
  ELSE IF type = "EXTRACT_LIST" THEN ExtractList(values[1], selectors)
  ELSE IF type = "EXTRACT_ATTRIBUTE" THEN ExtractAttribute(values[1], values[2], selectors)
  ELSE IF type = "EXTRACT_ATTRIBUTE_LIST"
  THEN ExtractAttributeList(values[1], values[2], selectors)
  ELSE IF type = "SET_FIELD" THEN SetField(values[1], values[2])
  ELSE IF type = "CLICK" THEN Click(selectors)
  ELSE IF type = "LOG" THEN Log(values[1])
  ELSE IF type = "THROW" THEN Throw(values[1])
  ELSE IF type = "TIMESTAMP" THEN Timestamp(values[1])
  ELSE Node(type)

\* the selector list of a command that has one
CommandSelectors(toks, command, values) ==
  IF ~values.ok \/ ~command.selectors THEN values ELSE parse_selector_list(toks, values.pos)

CommandEnd(command, values, selectors) ==
  IF ~selectors.ok THEN selectors
  ELSE Parsed(CommandNode(command.type, values.node,
                          IF command.selectors THEN selectors.node ELSE <<>>),
              selectors.pos)

CommandArguments(toks, command, values) ==
  CommandEnd(command, values, CommandSelectors(toks, command, values))

\* parse_goto_url ... parse_exit: the identifier, its strings, its selectors
parse_command(toks, pos, command) ==
  IF command.type = "none"
  THEN ParserRaised(FrontError("SyntaxError", "Unknown command", 0, 0, pos))
  ELSE CommandArguments(toks, command, EatStrings(toks, pos + 1, command.strings, <<>>))

\* a name after 'as' that may be any identifier
ElementVariableUnchecked(toks, pos) ==
  IF current_token(toks, pos).type # "IDENTIFIER" THEN eat(toks, pos, "IDENTIFIER")
  ELSE Parsed(current_token(toks, pos).value, pos + 1)

\* the name after 'as': an identifier that starts with @
ElementVariable(toks, pos) ==
  IF current_token(toks, pos).type # "IDENTIFIER" THEN eat(toks, pos, "IDENTIFIER")
  ELSE IF ~startswith(current_token(toks, pos).value, AT)
  THEN ParserRaised(FrontError("SyntaxError", "Element variable name must start with @",
                               current_token(toks, pos).line, current_token(toks, pos).column,
                               pos))
  ELSE Parsed(current_token(toks, pos).value, pos + 1)

\* parse_element_capture after the selectors of select; none is an error there
SelectCapture(toks, selectors, line) ==
  IF ~selectors.ok THEN selectors
  ELSE IF current_token(toks, selectors.pos).type # "AS"
  THEN ParserRaised(FrontError("SyntaxError", "Select statement requires as", line, 0,
                               selectors.pos))
  ELSE ElementVariable(toks, selectors.pos + 1)

SelectEnd(selectors, captured) ==
  IF ~captured.ok THEN captured ELSE Parsed(Select(selectors.node, captured.node), captured.pos)

SelectArguments(toks, selectors, line) ==
  SelectEnd(selectors, SelectCapture(toks, selectors, line))

parse_select(toks, pos) ==
  SelectArguments(toks, parse_selector_list(toks, pos + 1), current_token(toks, pos).line)

\* ---- conditions
Closed(toks, inner) ==
  IF ~inner.ok THEN inner
  ELSE IF current_token(toks, inner.pos).type # "RPAREN" THEN eat(toks, inner.pos, "RPAREN")
  ELSE Parsed(inner.node, inner.pos + 1)

NotNode(operand) == IF ~operand.ok THEN operand ELSE Parsed(Not(operand.node), operand.pos)

ExistsNode(selectors) ==
  IF ~selectors.ok THEN selectors ELSE Parsed(Exists(selectors.node), selectors.pos)

AndNode(left, right) ==
  IF ~right.ok THEN right ELSE Parsed(And(left.node, right.node), right.pos)

OrNode(left, right) == IF ~right.ok THEN right ELSE Parsed(Or(left.node, right.node), right.pos)

EXISTS == <<"e", "x", "i", "s", "t", "s">>

RECURSIVE parse_condition(_, _), parse_condition_term(_, _), parse_condition_factor(_, _),
          AndRest(_, _), OrRest(_, _), SameLevelRest(_, _)
\* any other atom reaches the test on TokenType.IS_EMPTY, a member the enum lacks
parse_condition_factor(toks, pos) ==
  IF current_token(toks, pos).type = "LPAREN" THEN Closed(toks, parse_condition(toks, pos + 1))
  ELSE IF current_token(toks, pos).type = "NOT"
  THEN NotNode(parse_condition_factor(toks, pos + 1))
  ELSE IF current_token(toks, pos).type = "IDENTIFIER" /\ current_token(toks, pos).value = EXISTS
  THEN ExistsNode(parse_selector_list(toks, pos + 1))
  ELSE ParserRaised(FrontError("AttributeError", "IS_EMPTY", 0, 0, pos))

\* while self.current_token.type == TokenType.AND: left-associative
AndRest(toks, left) ==
  IF ~left.ok THEN left
  ELSE IF current_token(toks, left.pos).type = "AND"
  THEN AndRest(toks, AndNode(left, parse_condition_factor(toks, left.pos + 1)))
  ELSE left

parse_condition_term(toks, pos) == AndRest(toks, parse_condition_factor(toks, pos))

OrRest(toks, left) ==
  IF ~left.ok THEN left
  ELSE IF current_token(toks, left.pos).type = "OR"
  THEN OrRest(toks, OrNode(left, parse_condition_term(toks, left.pos + 1)))
  ELSE left

\* a single loop for both operators: and, or of one precedence
SameLevelRest(toks, left) ==
  IF ~left.ok THEN left
  ELSE IF current_token(toks, left.pos).type = "AND"
  THEN SameLevelRest(toks, AndNode(left, parse_condition_factor(toks, left.pos + 1)))
  ELSE IF current_token(toks, left.pos).type = "OR"
  THEN SameLevelRest(toks, OrNode(left, parse_condition_factor(toks, left.pos + 1)))
  ELSE left

parse_condition_same_level(toks, pos) == SameLevelRest(toks, parse_condition_factor(toks, pos))

parse_condition(toks, pos) == OrRest(toks, parse_condition_term(toks, pos))

\* ---- the first line of a block
\* the newline a block's first line must end with, then skip_newlines
HeaderEnd(toks, header, what) ==
  IF ~header.ok THEN header
  ELSE IF current_token(toks, header.pos).type # "NEWLINE"
  THEN ParserRaised(FrontError("SyntaxError", what, current_token(toks, header.pos).line, 0,
                               header.pos))
  ELSE Parsed(header.node, skip_newlines(toks, header.pos))

\* if, else_if and while: the keyword, then the condition
ConditionHeader(toks, pos, what) == HeaderEnd(toks, parse_condition(toks, pos + 1), what)

\* foreach: the selectors, 'as', the element variable
ForeachVariable(toks, selectors) ==
  IF ~selectors.ok THEN selectors
  ELSE IF current_token(toks, selectors.pos).type # "AS" THEN eat(toks, selectors.pos, "AS")
  ELSE ElementVariable(toks, selectors.pos + 1)

ForeachNode(selectors, variable) ==
  IF ~variable.ok THEN variable
  ELSE Parsed([selectors |-> selectors.node, element_var_name |-> variable.node], variable.pos)

ForeachDeclaration(toks, selectors) ==
  ForeachNode(selectors, ForeachVariable(toks, selectors))

ForeachHeader(toks, pos) ==
  HeaderEnd(toks, ForeachDeclaration(toks, parse_selector_list(toks, pos + 1)),
            "Expected newline after foreach declaration")

\* ---- the end of parse_statement
\* a parse_statement that eats the newline it finds and asks for none
StatementEndUnchecked(toks, statement) ==
  IF ~statement.ok THEN statement
  ELSE Parsed(statement.node,
              IF current_token(toks, statement.pos).type = "NEWLINE" THEN statement.pos + 1
              ELSE statement.pos)

\* the newline or EOF a statement must be followed by; the newline is eaten
StatementEnd(toks, statement) ==
  IF ~statement.ok THEN statement
  ELSE IF current_token(toks, statement.pos).type \notin {"NEWLINE", "EOF"}
  THEN ParserRaised(FrontError("SyntaxError", "Expected newline after statement", 0, 0,
                               statement.pos))
  ELSE Parsed(statement.node,
              IF current_token(toks, statement.pos).type = "NEWLINE" THEN statement.pos + 1
              ELSE statement.pos)

\* the branches of parse_statement that parse a whole statement or raise; a
\* head token of no branch reaches the test on TokenType.DATA_SCHEMA, a
\* member the enum lacks
SimpleStatement(toks, pos) ==
  IF current_token(toks, pos).type = "IDENTIFIER"
  THEN StatementEnd(toks, parse_command(toks, pos, Commands(current_token(toks, pos).value)))
  ELSE IF current_token(toks, pos).type = "SELECT" THEN StatementEnd(toks, parse_select(toks, pos))
  ELSE ParserRaised(FrontError("AttributeError", "DATA_SCHEMA", 0, 0, pos))

\* ---- the blocks being parsed
\* a call of parse_if_statement, parse_foreach_statement or
\* parse_while_statement that is inside one of its loops
Block(kind, part, header) ==
  [kind |-> kind, part |-> part, header |-> header, true_branch |-> <<>>,
   else_if_branches |-> <<>>, else_if_condition |-> <<>>, statements |-> <<>>]

\* the tokens that end the loop a block is in
Terminators(block) ==
  IF block.kind = "foreach" THEN {"END_FOREACH"}
  ELSE IF block.kind = "while" THEN {"END_WHILE"}
  ELSE IF block.part = "else" THEN {"END_IF"}
  ELSE {"END_IF", "ELSE", "ELSE_IF"}

\* the if block after the loop of its true branch or of an else_if branch
BranchDone(block) ==
  IF block.part = "true" THEN [block EXCEPT !.true_branch = block.statements, !.statements = <<>>]
  ELSE IF block.part = "else_if"
  THEN [block EXCEPT !.else_if_branches = Append(@, <<block.else_if_condition,
                                                       block.statements>>),
                     !.statements = <<>>]
  ELSE block

\* the ASTNode a block's method returns
BlockNode(block) ==
  IF block.kind = "foreach"
  THEN Foreach(block.header.selectors, block.header.element_var_name, block.statements)
  ELSE IF block.kind = "while" THEN While(block.header, block.statements)
  ELSE If(block.header, BranchDone(block).true_branch, BranchDone(block).else_if_branches,
          IF block.part = "else" THEN block.statements ELSE <<>>)

\* Parser.__init__
NewParser == [pos |-> 0, children |-> <<>>, blocks |-> <<>>, idle |-> 0]

\* ------------------------------------------------------------- state
\* ------------------------------------------------- legacy stack machine
\* A step of steps.py: next_step_id is -1 for "the step after this one";
\* IF_EXISTS has the two ids it jumps to instead.
Step(id, type, next_step_id, next_step_id_true, next_step_id_false) ==
  [id |-> id, type |-> type, next_step_id |-> next_step_id,
   next_step_id_true |-> next_step_id_true, next_step_id_false |-> next_step_id_false]

\* A non-blank line of a file of steps: a step without its id, or BAD for a
\* line whose arguments do not match the pattern of its step type
Line(type, next_step_id, next_step_id_true, next_step_id_false) ==
  Step(0, type, next_step_id, next_step_id_true, next_step_id_false)

\* the loop of parse_file: every non-blank line takes the next id, and a line
\* that cannot be parsed adds no step
RECURSIVE ParseLines(_, _, _)
ParseLines(lines, step_id_incremental, step_list) ==
  IF step_id_incremental > Len(lines) THEN step_list
  ELSE ParseLines(lines, step_id_incremental + 1,
                  IF lines[step_id_incremental].type = "BAD" THEN step_list
                  ELSE Append(step_list,
                              [lines[step_id_incremental] EXCEPT !.id = step_id_incremental]))

parse_file(lines) == ParseLines(lines, 1, <<>>)

\* StackMachine.__init__: steps_by_id[step.id] = step for the steps in turn
steps_by_id(step_list) ==
  [id \in {step_list[k].id : k \in DOMAIN step_list} |->
     step_list[CHOOSE k \in DOMAIN step_list :
                 /\ step_list[k].id = id
                 /\ \A j \in DOMAIN step_list : step_list[j].id = id => j <= k]]

StackMachine(step_list) ==
  [steps_by_id |-> steps_by_id(step_list), current_step |-> 0, data |-> <<>>,
   current_row |-> <<>>, state |-> "constructed", error |-> "none"]

\* no StackMachine is constructed
NoMachine == StackMachine(<<>>)

\* the largest id the search for the next step looks at
step_id_limit == 1000

\* execute_and_get_next_step: the id it returns, the row as it leaves it, and
\* whether it raised; found is whether the page has the element asked for,
\* or lets goto load the url
execute_and_get_next_step(step, row, found) ==
  IF step.type = "IF_EXISTS"
  THEN [raised |-> FALSE, row |-> row,
        next_step_id |-> IF found THEN step.next_step_id_true ELSE step.next_step_id_false]
  ELSE IF step.type = "EXTRACT"
  THEN [raised |-> ~found, next_step_id |-> step.next_step_id,
        row |-> IF found THEN [f \in (DOMAIN row) \cup {"c"} |-> "X"] ELSE row]
  ELSE IF step.type \in {"CLICK", "GOTO_URL"}
  THEN [raised |-> ~found, row |-> row, next_step_id |-> step.next_step_id]
  ELSE [raised |-> step.type = "END", row |-> row, next_step_id |-> step.next_step_id]

\* self.steps_by_id[next_step_id]
Lookup(steps, next_step_id) ==
  IF next_step_id \in DOMAIN steps
  THEN [error |-> "none", current_step |-> next_step_id]
  ELSE [error |-> "KeyError", current_step |-> 0]

\* the step after the step with this id: the dict is indexed with id + 1, so
\* the loop over missing steps and the test of the limit come after a lookup
\* that has succeeded
Following(steps, id) ==
  IF Lookup(steps, id + 1).error # "none" THEN Lookup(steps, id + 1)
  ELSE IF id + 1 > step_id_limit THEN [error |-> "No next step found", current_step |-> 0]
  ELSE Lookup(steps, id + 1)

\* the choice of the next current_step at the end of an iteration
NextStep(steps, id, next_step_id) ==
  IF next_step_id = 0 - 1 THEN Following(steps, id) ELSE Lookup(steps, next_step_id)

VARIABLES
  script_text,         \* what run_script read from the script file
  tokens,              \* what tokenize() returned
  parser,              \* the Parser: position, statements so far, open blocks
  stage,               \* position in run_script: lexing, parsing, parsed, failed
  error,               \* the exception that left run_script before execute()
  ast,                 \* children of the PROGRAM node
  data_file,           \* whether execute() was given a data file
  feed,                \* the rows that file holds
  browser_impl,        \* the implementation BrowserFactory.create is asked for
  phase,               \* position in execute(): idle, executing, terminating, done
  frames,              \* active execute_program / execute_if / loop calls
  ctl,                 \* run, stop (a handler returned False), raise
  exc,                 \* the exception in flight
  todo,                \* program runs still to start
  current_row, rows, data_schema, current_data_row, data_rows,
  element_references, foreach_indexes, row_state_stack,
  ids,                 \* which dict object current_row, each saved row and each
                       \* snapshot is: equal numbers are one object
  browser_automation,  \* whether the attribute is set
  tabs, current_tab_index,
  resources,           \* driver holds playwright, browser and context
  cleanups,            \* calls of cleanup()
  last,                \* statement handled last, the branch its handler took, the depth
                       \* of calls it ran at and the runs that were still to start
  executed,            \* statements handled so far
  queried,             \* driver queries issued by the last handler or test
  driver_calls,        \* calls of the driver made between launch and cleanup
  reported,            \* "Script execution failed" messages printed by execute()
  result,              \* what the caller of execute() got
  machine,             \* the legacy StackMachine: its steps, the id of current_step,
                       \* data, current_row and how execute_steps stands
  called               \* the call a client of the driver alone made last, the tab
                       \* index it was made at, and the same for the call before

front == <<script_text, tokens, parser, stage, error>>
inputs == <<ast, data_file, feed, browser_impl, front, machine>>
control == <<phase, frames, ctl, exc>>
rowvars == <<current_row, rows>>
refvars == <<element_references, foreach_indexes, row_state_stack>>
datavars == <<data_schema, current_data_row, data_rows, todo>>
drivervars == <<browser_automation, tabs, current_tab_index, resources, cleanups>>
observed == <<last, executed, queried, driver_calls>>
callervars == <<reported, result, called>>
vars == <<inputs, control, rowvars, refvars, ids, datavars, drivervars, observed, callervars>>

\* {} of Python: the mapping with no key
EmptyDict == <<>>

\* d[k] = v
Put(d, k, v) == [x \in (DOMAIN d) \cup {k} |-> IF x = k THEN v ELSE d[x]]

\* del d[k] when k is a key
Del(d, k) == [x \in (DOMAIN d) \ {k} |-> d[x]]

\* the dict objects in use
Objects ==
  {ids.current_row} \cup {ids.rows[k] : k \in DOMAIN ids.rows}
                    \cup {ids.row_state_stack[k] : k \in DOMAIN ids.row_state_stack}

\* a dict object no name refers to yet: dict.copy() and {} make one
Fresh == 1 + CHOOSE m \in Objects : \A o \in Objects : o <= m

\* the dicts of a list after d[k] = v on the object obj
Written(dicts, objs, obj, k, v) ==
  [i \in DOMAIN dicts |-> IF objs[i] = obj THEN Put(dicts[i], k, v) ELSE dicts[i]]

\* self.current_row[k] = v: an assignment in place, seen through every name
\* of the object
SetItem(k, v) ==
  /\ current_row' = Put(current_row, k, v)
  /\ rows' = Written(rows, ids.rows, ids.current_row, k, v)
  /\ row_state_stack' = Written(row_state_stack, ids.row_state_stack, ids.current_row, k, v)
  /\ ids' = ids

rowobjs == <<current_row, rows, row_state_stack, ids>>

NoExc == [kind |-> "none", message |-> <<>>]

\* a call of execute_program, execute_if, execute_foreach or execute_while:
\* the statements it runs, its position in them and its local variables;
\* stack is the length row_state_stack had when the call started
Frame(kind, stmts) ==
  [kind |-> kind, stmts |-> stmts, pc |-> 1, var |-> <<>>, n |-> 0, i |-> 0,
   condition |-> <<>>, iteration |-> 0, stack |-> Len(row_state_stack),
   row |-> IF kind \in {"foreach", "while"} THEN current_row ELSE EmptyDict]

Top == frames[Len(frames)]

\* the statement the innermost call is about to execute
node == Top.stmts[Top.pc]

AtStmt(t) ==
  /\ phase = "executing" /\ ctl = "run" /\ frames # <<>>
  /\ Top.pc <= Len(Top.stmts)
  /\ node.type = t

Env ==
  [data_schema |-> data_schema, current_data_row |-> current_data_row,
   element_references |-> element_references, foreach_indexes |-> foreach_indexes,
   pg |-> _current_page(tabs, current_tab_index)]

\* the handler returned True: the caller goes on with its next statement
Continue ==
  /\ frames' = [frames EXCEPT ![Len(frames)].pc = @ + 1]
  /\ UNCHANGED <<phase, ctl, exc>>

\* the handler returned False: the caller returns False in turn
Stop ==
  /\ ctl' = "stop"
  /\ UNCHANGED <<phase, frames, exc>>

\* the handler raised
Raise(kind, message) ==
  /\ ctl' = "raise"
  /\ exc' = [kind |-> kind, message |-> message]
  /\ UNCHANGED <<phase, frames>>

\* what every handler leaves behind for the observer: the branch it took,
\* the queries it issued and the number of its other driver calls
Handled(branch, log, calls) ==
  /\ last' = [type |-> node.type, branch |-> branch, depth |-> Len(frames), run |-> todo]
  /\ executed' = executed + 1
  /\ queried' = log
  /\ driver_calls' = driver_calls + Len(log) + calls


\* ------------------------------------------------------------- driver calls
\* goto: drop the tabs after the current one; open a tab; load the page.
\* When the load raises the new tab is not recorded.
TruncatedTabs ==
  IF current_tab_index < Len(tabs) - 1 THEN SubSeq(tabs, 1, current_tab_index + 1) ELSE tabs

goto(page, loaded) ==
  IF loaded
  THEN /\ tabs' = Append(TruncatedTabs, page)
       /\ current_tab_index' = Len(TruncatedTabs)
  ELSE /\ tabs' = TruncatedTabs
       /\ current_tab_index' = current_tab_index

go_back ==
  /\ current_tab_index' = IF current_tab_index > 0 THEN current_tab_index - 1
                          ELSE current_tab_index
  /\ tabs' = tabs

\* a go_forward that jumps to the newest tab
go_forward_to_last ==
  /\ current_tab_index' = Len(tabs) - 1
  /\ tabs' = tabs

go_forward ==
  /\ current_tab_index' = IF current_tab_index < Len(tabs) - 1 THEN current_tab_index + 1
                          ELSE current_tab_index
  /\ tabs' = tabs

\* click: True; False with the page as it was (the click raised); False
\* after the click made the tab navigate to another page
click(outcome, page) ==
  /\ current_tab_index' = current_tab_index
  /\ tabs' = IF outcome = "navigated" THEN [tabs EXCEPT ![current_tab_index + 1] = page]
             ELSE tabs

ClickOutcomes == {"clicked", "failed", "navigated"}

\* ------------------------------------------------------------- statements
\* the page of the current tab
Page == _current_page(tabs, current_tab_index)

\* create_selectors on the interpreter's references
Created(selector_strings) ==
  create_selectors(selector_strings, element_references, foreach_indexes)

\* [self.substitute_variables(selector) for selector in selectors]
Substituted(selectors) == SubstituteAll(selectors, data_schema, current_data_row)

\* the element of the first selector that resolves
Resolved(selector_objects, pg) ==
  IF selector_objects.ok THEN resolve_selectors(selector_objects.sels, pg) ELSE Unresolved

\* the elements of the first selector that has any
ResolvedAll(selector_objects, pg, lenient) ==
  IF selector_objects.ok THEN FirstWorking(selector_objects.sels, 1, pg, lenient)
  ELSE Unresolved

\* create_selectors or a driver query raised
Failed(selector_objects, found, log) ==
  /\ IF ~selector_objects.ok THEN Raise("ValueError", <<>>) ELSE Raise("BrowserError", <<>>)
  /\ Handled("raised", log, 0)

execute_goto_url ==
  /\ AtStmt("GOTO_URL")
  /\ \E page \in 1..Len(Pages), loaded \in BOOLEAN :
       /\ goto(page, loaded)
       /\ Handled(IF loaded THEN "navigated" ELSE "raised", <<>>, 1)
       /\ IF loaded THEN Continue
          ELSE Raise("BrowserError", substitute_variables(node.url, data_schema, current_data_row))
  /\ UNCHANGED <<inputs, ids, rowvars, refvars, datavars, browser_automation, resources, cleanups,
                 callervars>>

\* driver calls of goto_href once the element is found: the attribute read,
\* get_current_url for a relative href, goto
HrefCalls(href) == IF startswith(href, "/") THEN 3 ELSE 2

execute_goto_href ==
  /\ AtStmt("GOTO_HREF")
  /\ \E pg \in {Page} : \E selector_objects \in {Created(node.selectors)} :
     \E element \in {Resolved(selector_objects, pg)} :
     \E attr \in {IF element.els # <<>> THEN extract_attribute(pg.dom, element.els[1], HREF)
                  ELSE None} :
       IF ~element.ok THEN
         Failed(selector_objects, element, element.log) /\ UNCHANGED <<tabs, current_tab_index>>
       ELSE IF element.els = <<>> THEN
         Stop /\ Handled("no_element", element.log, 0) /\ UNCHANGED <<tabs, current_tab_index>>
       ELSE IF attr = None THEN
         \* None.strip()
         /\ Raise("AttributeError", <<>>) /\ Handled("no_attribute", element.log, 1)
         /\ UNCHANGED <<tabs, current_tab_index>>
       ELSE IF strip(attr.s) = <<>> THEN
         Stop /\ Handled("no_href", element.log, 1) /\ UNCHANGED <<tabs, current_tab_index>>
       ELSE
         \E page \in 1..Len(Pages), loaded \in BOOLEAN :
           /\ goto(page, loaded)
           /\ Handled(IF loaded THEN "navigated" ELSE "raised", element.log,
                      HrefCalls(strip(attr.s)))
           /\ IF loaded THEN Continue ELSE Raise("BrowserError", <<>>)
  /\ UNCHANGED <<inputs, ids, rowvars, refvars, datavars, browser_automation, resources, cleanups,
                 callervars>>

\* an extract that stores nothing when no element is found
execute_extract_skipping ==
  /\ AtStmt("EXTRACT")
  /\ \E pg \in {Page} : \E selector_objects \in {Created(Substituted(node.selectors))} :
     \E element \in {Resolved(selector_objects, pg)} :
       IF ~element.ok THEN
         Failed(selector_objects, element, element.log) /\ UNCHANGED rowobjs
       ELSE IF element.els # <<>> THEN
         /\ SetItem(node.column_name, StrV(strip(extract_text(pg.dom, element.els[1]))))
         /\ Continue /\ Handled("extracted", element.log, 1)
       ELSE
         /\ UNCHANGED rowobjs
         /\ Continue /\ Handled("no_element", element.log, 0)
  /\ UNCHANGED <<inputs, element_references, foreach_indexes, datavars, drivervars,
                 callervars>>

execute_extract ==
  /\ AtStmt("EXTRACT")
  /\ \E pg \in {Page} : \E selector_objects \in {Created(Substituted(node.selectors))} :
     \E element \in {Resolved(selector_objects, pg)} :
       IF ~element.ok THEN
         Failed(selector_objects, element, element.log) /\ UNCHANGED rowobjs
       ELSE IF element.els # <<>> THEN
         /\ SetItem(node.column_name, StrV(strip(extract_text(pg.dom, element.els[1]))))
         /\ Continue /\ Handled("extracted", element.log, 1)
       ELSE
         /\ SetItem(node.column_name, None)
         /\ Continue /\ Handled("no_element", element.log, 0)
  /\ UNCHANGED <<inputs, element_references, foreach_indexes, datavars, drivervars,
                 callervars>>

execute_extract_list ==
  /\ AtStmt("EXTRACT_LIST")
  /\ \E pg \in {Page} : \E selector_objects \in {Created(node.selectors)} :
     \E found \in {ResolvedAll(selector_objects, pg, FALSE)} :
     \E texts \in {[k \in 1..Len(found.els) |-> strip(extract_text(pg.dom, found.els[k]))]} :
       IF ~found.ok THEN
         Failed(selector_objects, found, found.log) /\ UNCHANGED rowobjs
       ELSE
         /\ SetItem(node.column_name, ListV(texts))
         /\ Continue
         /\ Handled(IF texts # <<>> THEN "extracted" ELSE "no_element", found.log, Len(texts))
  /\ UNCHANGED <<inputs, element_references, foreach_indexes, datavars, drivervars,
                 callervars>>

execute_extract_attribute ==
  /\ AtStmt("EXTRACT_ATTRIBUTE")
  /\ \E pg \in {Page} : \E selector_objects \in {Created(Substituted(node.selectors))} :
     \E element \in {Resolved(selector_objects, pg)} :
     \E attr \in {IF element.els # <<>>
                  THEN extract_attribute(pg.dom, element.els[1],
                                         substitute_variables(node.attribute, data_schema,
                                                              current_data_row))
                  ELSE None} :
       IF ~element.ok THEN
         Failed(selector_objects, element, element.log) /\ UNCHANGED rowobjs
       ELSE IF element.els = <<>> THEN
         /\ SetItem(node.column_name, None)
         /\ Continue /\ Handled("no_element", element.log, 0)
       ELSE IF attr = None THEN
         \* None.strip()
         /\ Raise("AttributeError", <<>>) /\ Handled("no_attribute", element.log, 1)
         /\ UNCHANGED rowobjs
       ELSE
         /\ SetItem(node.column_name, StrV(strip(attr.s)))
         /\ Continue /\ Handled("extracted", element.log, 1)
  /\ UNCHANGED <<inputs, element_references, foreach_indexes, datavars, drivervars,
                 callervars>>

execute_extract_attribute_list ==
  /\ AtStmt("EXTRACT_ATTRIBUTE_LIST")
  /\ \E pg \in {Page} : \E selector_objects \in {Created(Substituted(node.selectors))} :
     \E found \in {ResolvedAll(selector_objects, pg, FALSE)} :
     \E attrs \in {[k \in 1..Len(found.els) |->
                      extract_attribute(pg.dom, found.els[k],
                                        substitute_variables(node.attribute, data_schema,
                                                             current_data_row))]} :
       IF ~found.ok THEN
         Failed(selector_objects, found, found.log) /\ UNCHANGED rowobjs
       ELSE IF \E k \in 1..Len(attrs) : attrs[k] = None THEN
         \* None.strip()
         /\ Raise("AttributeError", <<>>)
         /\ Handled("no_attribute", found.log,
                    CHOOSE k \in 1..Len(attrs) :
                      attrs[k] = None /\ \A j \in 1..(k - 1) : attrs[j] # None)
         /\ UNCHANGED rowobjs
       ELSE
         /\ SetItem(node.column_name, ListV([k \in 1..Len(attrs) |-> strip(attrs[k].s)]))
         /\ Continue
         /\ Handled(IF attrs # <<>> THEN "extracted" ELSE "no_element", found.log, Len(attrs))
  /\ UNCHANGED <<inputs, element_references, foreach_indexes, datavars, drivervars,
                 callervars>>

\* a save_row that appends the row object itself and refills it in place
execute_save_row_sharing ==
  /\ AtStmt("SAVE_ROW")
  /\ \E restored \in {IF row_state_stack # <<>> THEN row_state_stack[Len(row_state_stack)]
                       ELSE EmptyDict} :
       /\ rows' = Append([i \in DOMAIN rows |->
                            IF ids.rows[i] = ids.current_row THEN restored ELSE rows[i]],
                         restored)
       /\ current_row' = restored
  /\ ids' = [ids EXCEPT !.rows = Append(@, ids.current_row)]
  /\ Continue /\ Handled("saved", <<>>, 0)
  /\ UNCHANGED <<inputs, refvars, datavars, drivervars, callervars>>

\* a save_row that restores the snapshot itself, not a copy of it
execute_save_row_restoring ==
  /\ AtStmt("SAVE_ROW")
  /\ rows' = Append(rows, current_row)
  /\ current_row' = IF row_state_stack # <<>> THEN row_state_stack[Len(row_state_stack)]
                    ELSE EmptyDict
  /\ ids' = [ids EXCEPT !.rows = Append(@, Fresh),
                        !.current_row = IF row_state_stack # <<>>
                                        THEN ids.row_state_stack[Len(row_state_stack)]
                                        ELSE Fresh + 1]
  /\ UNCHANGED row_state_stack
  /\ Continue /\ Handled("saved", <<>>, 0)
  /\ UNCHANGED <<inputs, element_references, foreach_indexes, datavars, drivervars, callervars>>

execute_save_row ==
  /\ AtStmt("SAVE_ROW")
  /\ rows' = Append(rows, current_row)
  /\ current_row' = IF row_state_stack # <<>> THEN row_state_stack[Len(row_state_stack)]
                    ELSE EmptyDict
  /\ ids' = [ids EXCEPT !.rows = Append(@, Fresh), !.current_row = Fresh + 1]
  /\ Continue /\ Handled("saved", <<>>, 0)
  /\ UNCHANGED <<inputs, refvars, datavars, drivervars, callervars>>

execute_clear_row ==
  /\ AtStmt("CLEAR_ROW")
  /\ current_row' = EmptyDict
  /\ ids' = [ids EXCEPT !.current_row = Fresh]
  /\ Continue /\ Handled("cleared", <<>>, 0)
  /\ UNCHANGED <<inputs, rows, refvars, datavars, drivervars, callervars>>

execute_set_field ==
  /\ AtStmt("SET_FIELD")
  /\ SetItem(substitute_variables(node.column_name, data_schema, current_data_row),
             StrV(substitute_variables(node.value, data_schema, current_data_row)))
  /\ Continue /\ Handled("set", <<>>, 0)
  /\ UNCHANGED <<inputs, element_references, foreach_indexes, datavars, drivervars,
                 callervars>>

execute_click ==
  /\ AtStmt("CLICK")
  /\ \E pg \in {Page} : \E selector_objects \in {Created(Substituted(node.selectors))} :
     \E element \in {Resolved(selector_objects, pg)} :
       IF ~element.ok THEN
         Failed(selector_objects, element, element.log) /\ UNCHANGED <<tabs, current_tab_index>>
       ELSE IF element.els = <<>> THEN
         Stop /\ Handled("no_element", element.log, 0) /\ UNCHANGED <<tabs, current_tab_index>>
       ELSE
         \E outcome \in ClickOutcomes, page \in 1..Len(Pages) :
           /\ click(outcome, page)
           /\ Handled(IF outcome = "clicked" THEN "clicked" ELSE "click_failed",
                      element.log, 1)
           /\ IF outcome = "clicked" THEN Continue ELSE Stop
  /\ UNCHANGED <<inputs, ids, rowvars, refvars, datavars, browser_automation, resources, cleanups,
                 callervars>>

execute_history_back ==
  /\ AtStmt("HISTORY_BACK")
  /\ go_back
  /\ Continue /\ Handled("back", <<>>, 1)
  /\ UNCHANGED <<inputs, ids, rowvars, refvars, datavars, browser_automation, resources, cleanups,
                 callervars>>

execute_history_forward ==
  /\ AtStmt("HISTORY_FORWARD")
  /\ go_forward
  /\ Continue /\ Handled("forward", <<>>, 1)
  /\ UNCHANGED <<inputs, ids, rowvars, refvars, datavars, browser_automation, resources, cleanups,
                 callervars>>

execute_log ==
  /\ AtStmt("LOG")
  /\ Continue /\ Handled("logged", <<>>, 0)
  /\ UNCHANGED <<inputs, ids, rowvars, refvars, datavars, drivervars, callervars>>

execute_throw ==
  /\ AtStmt("THROW")
  /\ Raise("ScriptError", node.message) /\ Handled("raised", <<>>, 0)
  /\ UNCHANGED <<inputs, ids, rowvars, refvars, datavars, drivervars, callervars>>

\* datetime.now().isoformat(): one of two instants
Instants == {<<"t", "1">>, <<"t", "2">>}

execute_timestamp ==
  /\ AtStmt("TIMESTAMP")
  /\ \E timestamp \in Instants :
       SetItem(node.column_name, StrV(timestamp))
  /\ Continue /\ Handled("stamped", <<>>, 0)
  /\ UNCHANGED <<inputs, element_references, foreach_indexes, datavars, drivervars,
                 callervars>>

execute_exit ==
  /\ AtStmt("EXIT")
  /\ Stop /\ Handled("exit", <<>>, 0)
  /\ UNCHANGED <<inputs, ids, rowvars, refvars, datavars, drivervars, callervars>>

\* a select that stores the first selector of its list once any resolves
execute_select_first ==
  /\ AtStmt("SELECT")
  /\ \E pg \in {Page} : \E selector_objects \in {Created(node.selectors)} :
     \E found \in {Resolved(selector_objects, pg)} :
       IF ~found.ok THEN
         Failed(selector_objects, found, found.log) /\ UNCHANGED element_references
       ELSE IF found.which > 0 /\ node.selectors[found.which] # <<>> THEN
         /\ element_references' = Put(element_references, node.element_var_name,
                                      node.selectors[1])
         /\ Continue /\ Handled("selected", found.log, 0)
       ELSE
         /\ Continue /\ Handled("no_element", found.log, 0)
         /\ UNCHANGED element_references
  /\ UNCHANGED <<inputs, ids, rowvars, foreach_indexes, row_state_stack, datavars, drivervars,
                 callervars>>

execute_select ==
  /\ AtStmt("SELECT")
  /\ \E pg \in {Page} : \E selector_objects \in {Created(node.selectors)} :
     \E found \in {Resolved(selector_objects, pg)} :
       IF ~found.ok THEN
         Failed(selector_objects, found, found.log) /\ UNCHANGED element_references
       ELSE IF found.which > 0 /\ node.selectors[found.which] # <<>> THEN
         /\ element_references' = Put(element_references, node.element_var_name,
                                      node.selectors[found.which])
         /\ Continue /\ Handled("selected", found.log, 0)
       ELSE
         /\ Continue /\ Handled("no_element", found.log, 0)
         /\ UNCHANGED element_references
  /\ UNCHANGED <<inputs, ids, rowvars, foreach_indexes, row_state_stack, datavars, drivervars,
                 callervars>>

execute_data_schema ==
  /\ AtStmt("DATA_SCHEMA")
  /\ data_schema' = Declare(data_schema, node.children)
  /\ Continue /\ Handled("declared", <<>>, 0)
  /\ UNCHANGED <<inputs, ids, rowvars, refvars, current_data_row, data_rows, todo, drivervars,
                 callervars>>

\* run the statements of a branch or body: a call frame on top of the caller
Enter(frame) ==
  /\ frames' = Append(frames, frame)
  /\ UNCHANGED <<phase, ctl, exc>>

\* for statement in branch: ...
Branch(stmts) == IF stmts = <<>> THEN Continue ELSE Enter(Frame("if", stmts))

execute_if ==
  /\ AtStmt("IF")
  /\ \E env \in {Env} : \E condition_result \in {evaluate_condition(node.condition, env)} :
     \E choice \in {IF condition_result.res = "false"
                    THEN ElseIfChoice(node.else_if_branches, 1, env)
                    ELSE [res |-> "none", which |-> 0, log |-> <<>>]} :
       IF condition_result.res = "raise" \/ choice.res = "raise" THEN
         Raise("ValueError", <<>>) /\ Handled("raised", condition_result.log \o choice.log, 0)
       ELSE IF condition_result.res = "true" THEN
         Branch(node.true_branch) /\ Handled("true_branch", condition_result.log, 0)
       ELSE IF choice.res = "taken" THEN
         /\ Branch(node.else_if_branches[choice.which][2])
         /\ Handled("else_if_branch", condition_result.log \o choice.log, 0)
       ELSE
         /\ Branch(node.false_branch)
         /\ Handled(IF node.false_branch # <<>> THEN "false_branch" ELSE "no_branch",
                    condition_result.log \o choice.log, 0)
  /\ UNCHANGED <<inputs, ids, rowvars, refvars, datavars, drivervars, callervars>>

\* execute_if returns True after the last statement of its branch
IfReturn ==
  /\ phase = "executing" /\ ctl = "run" /\ frames # <<>>
  /\ Top.kind = "if" /\ Top.pc > Len(Top.stmts)
  /\ frames' = [SubSeq(frames, 1, Len(frames) - 1) EXCEPT ![Len(frames) - 1].pc = @ + 1]
  /\ UNCHANGED <<inputs, ids, phase, ctl, exc, rowvars, refvars, datavars, drivervars, observed,
                 callervars>>

\* an execute_if that ignores the False of a statement of its branch
IfUnwindSwallowing ==
  /\ phase = "executing" /\ ctl # "run" /\ frames # <<>>
  /\ Top.kind = "if"
  /\ IF ctl = "stop"
     THEN /\ ctl' = "run"
          /\ frames' = [SubSeq(frames, 1, Len(frames) - 1) EXCEPT
                          ![Len(frames) - 1].pc = @ + 1]
     ELSE /\ ctl' = ctl
          /\ frames' = SubSeq(frames, 1, Len(frames) - 1)
  /\ UNCHANGED <<inputs, ids, phase, exc, rowvars, refvars, datavars, drivervars, observed,
                 callervars>>

\* execute_if passes on a False or an exception of its branch
IfUnwind ==
  /\ phase = "executing" /\ ctl # "run" /\ frames # <<>>
  /\ Top.kind = "if"
  /\ frames' = SubSeq(frames, 1, Len(frames) - 1)
  /\ UNCHANGED <<inputs, ids, phase, ctl, exc, rowvars, refvars, datavars, drivervars, observed,
                 callervars>>

\* the finally block of execute_foreach
ForeachFinally(var) ==
  /\ element_references' = Del(element_references, var)
  /\ foreach_indexes' = Del(foreach_indexes, var)
  /\ row_state_stack' = IF row_state_stack # <<>>
                        THEN SubSeq(row_state_stack, 1, Len(row_state_stack) - 1)
                        ELSE row_state_stack
  /\ ids' = [ids EXCEPT !.row_state_stack = IF @ # <<>> THEN SubSeq(@, 1, Len(@) - 1) ELSE @]

\* the name bound while the loop runs: the css of the working selector
ForeachBinding(working_selector, working_selector_str) ==
  IF css_selector(working_selector) # <<>> THEN css_selector(working_selector)
  ELSE working_selector_str

execute_foreach ==
  /\ AtStmt("FOREACH")
  /\ \E pg \in {Page} : \E selector_objects \in {Created(node.selectors)} :
     \E found \in {ResolvedAll(selector_objects, pg, TRUE)} :
       IF ~selector_objects.ok THEN
         Failed(selector_objects, found, <<>>) /\ UNCHANGED <<refvars, ids>>
       ELSE IF found.els = <<>> THEN
         Continue /\ Handled("no_element", found.log, 0) /\ UNCHANGED <<refvars, ids>>
       ELSE
         /\ element_references' =
              Put(element_references, node.element_var_name,
                  ForeachBinding(selector_objects.sels[found.which],
                                 node.selectors[found.which]))
         /\ row_state_stack' = Append(row_state_stack, current_row)
         /\ ids' = [ids EXCEPT !.row_state_stack = Append(@, Fresh)]
         /\ foreach_indexes' = Put(foreach_indexes, node.element_var_name, 0)
         /\ Enter([Frame("foreach", node.loop_body) EXCEPT
                     !.var = node.element_var_name, !.n = Len(found.els)])
         /\ Handled("entered", found.log, 0)
  /\ UNCHANGED <<inputs, rowvars, datavars, drivervars, callervars>>

\* an enumeration that passes over every second element
ForeachNextSkipping ==
  /\ phase = "executing" /\ ctl = "run" /\ frames # <<>>
  /\ Top.kind = "foreach" /\ Top.pc > Len(Top.stmts)
  /\ IF Top.i + 2 < Top.n THEN
       /\ foreach_indexes' = Put(foreach_indexes, Top.var, Top.i + 2)
       /\ frames' = [frames EXCEPT ![Len(frames)].i = @ + 2, ![Len(frames)].pc = 1]
       /\ UNCHANGED <<element_references, row_state_stack, ids>>
     ELSE
       /\ ForeachFinally(Top.var)
       /\ frames' = [SubSeq(frames, 1, Len(frames) - 1) EXCEPT ![Len(frames) - 1].pc = @ + 1]
  /\ UNCHANGED <<inputs, phase, ctl, exc, rowvars, datavars, drivervars, observed, callervars>>

\* a loop end that puts the popped snapshot back as the current row
ForeachNextRestoring ==
  /\ phase = "executing" /\ ctl = "run" /\ frames # <<>>
  /\ Top.kind = "foreach" /\ Top.pc > Len(Top.stmts)
  /\ IF Top.i + 1 < Top.n THEN
       /\ foreach_indexes' = Put(foreach_indexes, Top.var, Top.i + 1)
       /\ frames' = [frames EXCEPT ![Len(frames)].i = @ + 1, ![Len(frames)].pc = 1]
       /\ UNCHANGED <<element_references, row_state_stack, ids, rowvars>>
     ELSE
       /\ ForeachFinally(Top.var)
       /\ current_row' = IF row_state_stack # <<>> THEN row_state_stack[Len(row_state_stack)]
                         ELSE current_row
       /\ rows' = rows
       /\ frames' = [SubSeq(frames, 1, Len(frames) - 1) EXCEPT ![Len(frames) - 1].pc = @ + 1]
  /\ UNCHANGED <<inputs, phase, ctl, exc, datavars, drivervars, observed, callervars>>

\* end of the body: the next element, or the end of the loop
ForeachNext ==
  /\ phase = "executing" /\ ctl = "run" /\ frames # <<>>
  /\ Top.kind = "foreach" /\ Top.pc > Len(Top.stmts)
  /\ IF Top.i + 1 < Top.n THEN
       /\ foreach_indexes' = Put(foreach_indexes, Top.var, Top.i + 1)
       /\ frames' = [frames EXCEPT ![Len(frames)].i = @ + 1, ![Len(frames)].pc = 1]
       /\ UNCHANGED <<element_references, row_state_stack, ids>>
     ELSE
       /\ ForeachFinally(Top.var)
       /\ frames' = [SubSeq(frames, 1, Len(frames) - 1) EXCEPT ![Len(frames) - 1].pc = @ + 1]
  /\ UNCHANGED <<inputs, phase, ctl, exc, rowvars, datavars, drivervars, observed, callervars>>

\* a False or an exception of the body leaves through the finally block
ForeachUnwind ==
  /\ phase = "executing" /\ ctl # "run" /\ frames # <<>>
  /\ Top.kind = "foreach"
  /\ ForeachFinally(Top.var)
  /\ frames' = SubSeq(frames, 1, Len(frames) - 1)
  /\ UNCHANGED <<inputs, phase, ctl, exc, rowvars, datavars, drivervars, observed, callervars>>

\* a finally block that leaves the snapshot of the loop on the stack
WhileFinallyKeeping ==
  UNCHANGED <<element_references, foreach_indexes, row_state_stack, ids>>

\* the finally block of execute_while
WhileFinally ==
  /\ row_state_stack' = IF row_state_stack # <<>>
                        THEN SubSeq(row_state_stack, 1, Len(row_state_stack) - 1)
                        ELSE row_state_stack
  /\ ids' = [ids EXCEPT !.row_state_stack = IF @ # <<>> THEN SubSeq(@, 1, Len(@) - 1) ELSE @]
  /\ UNCHANGED <<element_references, foreach_indexes>>

\* the frame of a while loop starts at the loop test
execute_while ==
  /\ AtStmt("WHILE")
  /\ row_state_stack' = Append(row_state_stack, current_row)
  /\ ids' = [ids EXCEPT !.row_state_stack = Append(@, Fresh)]
  /\ Enter([Frame("while", node.loop_body) EXCEPT
              !.condition = node.condition, !.pc = Len(node.loop_body) + 1])
  /\ Handled("entered", <<>>, 0)
  /\ UNCHANGED <<inputs, rowvars, element_references, foreach_indexes, datavars, drivervars,
                 callervars>>

\* a loop test without the safety limit
WhileTestUnlimited ==
  /\ phase = "executing" /\ ctl = "run" /\ frames # <<>>
  /\ Top.kind = "while" /\ Top.pc > Len(Top.stmts)
  /\ Top.iteration <= max_iterations + 1
  /\ \E test \in {evaluate_condition(Top.condition, Env)} :
        /\ queried' = test.log
        /\ driver_calls' = driver_calls + Len(test.log)
        /\ IF test.res = "raise" THEN
             /\ ctl' = "raise"
             /\ exc' = [kind |-> "ValueError", message |-> <<>>]
             /\ UNCHANGED <<frames, refvars, ids>>
           ELSE IF test.res = "true" THEN
             /\ frames' = [frames EXCEPT ![Len(frames)].iteration = @ + 1,
                                         ![Len(frames)].pc = 1]
             /\ UNCHANGED <<ctl, exc, refvars, ids>>
           ELSE
             /\ WhileFinally
             /\ frames' = [SubSeq(frames, 1, Len(frames) - 1) EXCEPT
                             ![Len(frames) - 1].pc = @ + 1]
             /\ UNCHANGED <<ctl, exc>>
  /\ UNCHANGED <<inputs, phase, rowvars, datavars, drivervars, last, executed, callervars>>

\* while await self.evaluate_condition(node.condition): ...
WhileTest ==
  /\ phase = "executing" /\ ctl = "run" /\ frames # <<>>
  /\ Top.kind = "while" /\ Top.pc > Len(Top.stmts)
  /\ \E test \in {evaluate_condition(Top.condition, Env)} :
        /\ queried' = test.log
        /\ driver_calls' = driver_calls + Len(test.log)
        /\ IF test.res = "raise" THEN
             /\ ctl' = "raise"
             /\ exc' = [kind |-> "ValueError", message |-> <<>>]
             /\ UNCHANGED <<frames, refvars, ids>>
           ELSE IF test.res = "true" /\ Top.iteration + 1 <= max_iterations THEN
             /\ frames' = [frames EXCEPT ![Len(frames)].iteration = @ + 1,
                                         ![Len(frames)].pc = 1]
             /\ UNCHANGED <<ctl, exc, refvars, ids>>
           ELSE
             /\ WhileFinally
             /\ frames' = [SubSeq(frames, 1, Len(frames) - 1) EXCEPT
                             ![Len(frames) - 1].pc = @ + 1]
             /\ UNCHANGED <<ctl, exc>>
  /\ UNCHANGED <<inputs, phase, rowvars, datavars, drivervars, last, executed, callervars>>

WhileUnwind ==
  /\ phase = "executing" /\ ctl # "run" /\ frames # <<>>
  /\ Top.kind = "while"
  /\ WhileFinally
  /\ frames' = SubSeq(frames, 1, Len(frames) - 1)
  /\ UNCHANGED <<inputs, phase, ctl, exc, rowvars, datavars, drivervars, observed, callervars>>

\* ------------------------------------------------------------- execute()
\* execute_program returns: after its last statement, or passing on a False
\* or an exception
ProgramReturn ==
  /\ phase = "executing" /\ frames # <<>>
  /\ Top.kind = "program"
  /\ ctl # "run" \/ Top.pc > Len(Top.stmts)
  /\ frames' = SubSeq(frames, 1, Len(frames) - 1)
  /\ UNCHANGED <<inputs, ids, phase, ctl, exc, rowvars, refvars, datavars, drivervars, observed,
                 callervars>>


\* BrowserFactory.create, launch, load_data_file: each may raise
LaunchOutcomes == {"launched", "create_raised", "launch_raised", "load_raised"}

Launch ==
  /\ stage = "parsed"
  /\ phase = "idle"
  /\ \E outcome \in LaunchOutcomes :
       /\ outcome = "load_raised" => data_file
       /\ browser_automation' = (outcome # "create_raised")
       /\ resources' = (outcome # "create_raised")
       /\ IF outcome \in {"launched", "load_raised"}
          THEN tabs' = <<1>> /\ current_tab_index' = 0
          ELSE UNCHANGED <<tabs, current_tab_index>>
       /\ IF outcome = "launched"
          THEN /\ data_rows' = IF data_file THEN feed ELSE data_rows
               /\ todo' = IF data_file THEN Len(feed) ELSE 1
               /\ UNCHANGED <<ctl, exc>>
          ELSE /\ ctl' = "raise"
               /\ exc' = [kind |-> outcome, message |-> <<>>]
               /\ UNCHANGED <<data_rows, todo>>
  /\ phase' = "executing"
  /\ UNCHANGED <<inputs, ids, frames, rowvars, refvars, data_schema, current_data_row, cleanups,
                 observed, callervars>>

\* a loop over the data rows that ends when a run returns False
BeginRunUnlessStopped ==
  /\ phase = "executing" /\ frames = <<>> /\ ctl # "raise" /\ todo > 0
  /\ IF ctl = "stop"
     THEN /\ todo' = 0
          /\ UNCHANGED <<ctl, frames, current_data_row, current_row, refvars, ids>>
     ELSE /\ todo' = todo - 1
          /\ ctl' = "run"
          /\ frames' = <<Frame("program", ast)>>
          /\ IF data_file
             THEN /\ current_data_row' = data_rows[Len(data_rows) - todo + 1]
                  /\ current_row' = EmptyDict
                  /\ element_references' = EmptyDict
                  /\ foreach_indexes' = EmptyDict
                  /\ row_state_stack' = <<>>
                  /\ ids' = [ids EXCEPT !.current_row = Fresh, !.row_state_stack = <<>>]
             ELSE UNCHANGED <<current_data_row, current_row, refvars, ids>>
  /\ UNCHANGED <<inputs, phase, exc, rows, data_schema, data_rows, drivervars, observed,
                 callervars>>

\* one run of the program: the only one, or the one of the next data row;
\* the value execute_program returned for the run before is not looked at
BeginRun ==
  /\ phase = "executing" /\ frames = <<>> /\ ctl # "raise" /\ todo > 0
  /\ todo' = todo - 1
  /\ ctl' = "run"
  /\ frames' = <<Frame("program", ast)>>
  /\ IF data_file
     THEN /\ current_data_row' = data_rows[Len(data_rows) - todo + 1]
          /\ current_row' = EmptyDict
          /\ element_references' = EmptyDict
          /\ foreach_indexes' = EmptyDict
          /\ row_state_stack' = <<>>
          /\ ids' = [ids EXCEPT !.current_row = Fresh, !.row_state_stack = <<>>]
     ELSE UNCHANGED <<current_data_row, current_row, refvars, ids>>
  /\ UNCHANGED <<inputs, phase, exc, rows, data_schema, data_rows, drivervars, observed,
                 callervars>>

\* an except clause that commits the row in progress before it returns
EndOfTryFlushing ==
  /\ phase = "executing" /\ frames = <<>>
  /\ ctl = "raise" \/ todo = 0
  /\ phase' = "terminating"
  /\ reported' = IF ctl = "raise" THEN Append(reported, exc) ELSE reported
  /\ rows' = IF ctl = "raise" THEN Append(rows, current_row) ELSE rows
  /\ ids' = IF ctl = "raise" THEN [ids EXCEPT !.rows = Append(@, Fresh)] ELSE ids
  /\ exc' = NoExc
  /\ UNCHANGED <<inputs, frames, ctl, current_row, refvars, datavars, drivervars, observed,
                 result, called>>

\* the try block is left: by return self.rows, or through the except clause,
\* which prints the exception and returns self.rows as well
EndOfTry ==
  /\ phase = "executing" /\ frames = <<>>
  /\ ctl = "raise" \/ todo = 0
  /\ phase' = "terminating"
  /\ reported' = IF ctl = "raise" THEN Append(reported, exc) ELSE reported
  /\ exc' = NoExc
  /\ UNCHANGED <<inputs, ids, frames, ctl, rowvars, refvars, datavars, drivervars, observed,
                 result, called>>

\* PlaywrightAutomation.cleanup closes the tabs, the context, the browser and
\* the driver; PuppeteerAutomation.cleanup forgets the browser it launched
cleanup ==
  /\ IF browser_impl = "playwright"
     THEN /\ tabs' = <<>>
          /\ current_tab_index' = 0 - 1
          /\ resources' = FALSE
     ELSE UNCHANGED <<tabs, current_tab_index, resources>>
  /\ cleanups' = cleanups + 1

\* a finally block that releases nothing
FinallyWithoutCleanup ==
  /\ phase = "terminating"
  /\ phase' = "done"
  /\ result' = [status |-> "returned", rows |-> rows]
  /\ UNCHANGED <<inputs, ids, frames, ctl, exc, rowvars, refvars, datavars, drivervars,
                 observed, reported, called>>

\* an execute() whose except clause raises again after printing
FinallyReraising ==
  /\ phase = "terminating"
  /\ IF browser_automation THEN cleanup
     ELSE UNCHANGED <<tabs, current_tab_index, resources, cleanups>>
  /\ phase' = "done"
  /\ result' = IF reported # <<>> THEN [status |-> "raised", rows |-> <<>>]
               ELSE [status |-> "returned", rows |-> rows]
  /\ UNCHANGED <<inputs, ids, frames, ctl, exc, rowvars, refvars, datavars, browser_automation,
                 observed, reported, called>>

\* the finally block of execute(), then the caller gets the rows
Finally ==
  /\ phase = "terminating"
  /\ IF browser_automation THEN cleanup
     ELSE UNCHANGED <<tabs, current_tab_index, resources, cleanups>>
  /\ phase' = "done"
  /\ result' = [status |-> "returned", rows |-> rows]
  /\ UNCHANGED <<inputs, ids, frames, ctl, exc, rowvars, refvars, datavars, browser_automation,
                 observed, reported, called>>


\* ------------------------------------------------------------- scripts
\* The scripts execute() is run on (the children of their PROGRAM node).
\* Selectors: tags a, b, l, u; variables @v, @w; columns c, d, t; the data
\* variable $k of column k.
\* scenario 3 of the specification: a row per list item
ScriptRows ==
  <<GotoUrl(<<"u">>), SetField(<<"d">>, <<"l">>),
    Foreach(<< <<"l">> >>, <<"@", "v">>, <<Extract(<<"c">>, << <<"@", "v", " ", "a">> >>),
        SaveRow>>)>>

ScriptClickTop ==
  <<GotoUrl(<<"u">>), SetField(<<"d">>, <<"l">>), SaveRow, Click(<< <<"b">> >>),
      SetField(<<"c">>, <<"x">>), SaveRow>>

ScriptClickIf ==
  <<GotoUrl(<<"u">>), SetField(<<"d">>, <<"l">>), SaveRow,
    If(Not(Exists(<< <<"u">> >>)), <<Click(<< <<"b">> >>), SetField(<<"c">>, <<"x">>)>>, <<>>,
        <<>>),
    SaveRow>>

ScriptClickLoop ==
  <<GotoUrl(<<"u">>), SetField(<<"d">>, <<"l">>), SaveRow,
    Foreach(<< <<"l">> >>, <<"@", "v">>, <<Click(<< <<"@", "v", " ", "b">>,
        <<"@", "v", " ", "a">> >>), SetField(<<"c">>, <<"x">>), SaveRow>>),
    SaveRow>>

ScriptHref ==
  <<GotoUrl(<<"u">>), SetField(<<"d">>, <<"l">>), SaveRow, GotoHref(<< <<"b">>, <<"a">> >>),
      Extract(<<"c">>, << <<"a">> >>), SaveRow>>

ScriptAttributes ==
  <<GotoUrl(<<"u">>), ExtractAttribute(<<"c">>, HREF, << <<"b">>, <<"a">> >>), SaveRow,
    ExtractAttributeList(<<"d">>, HREF, << <<"a">> >>), SaveRow>>

\* throw and exit below foreach, if and while
ScriptThrow ==
  <<GotoUrl(<<"u">>), SetField(<<"d">>, <<"l">>), SaveRow,
    Foreach(<< <<"l">> >>, <<"@", "v">>,
      <<If(Exists(<< <<"@", "v", " ", "a">> >>),
           <<While(Exists(<< <<"a">> >>), <<SetField(<<"c">>, <<"x">>), Throw(<<"m">>)>>)>>,
               <<>>, <<>>),
        SaveRow>>),
    SetField(<<"c">>, <<"x">>), SaveRow>>

ScriptExit ==
  <<GotoUrl(<<"u">>), SetField(<<"d">>, <<"l">>), SaveRow,
    Foreach(<< <<"l">> >>, <<"@", "v">>,
      <<If(Exists(<< <<"@", "v", " ", "a">> >>),
           <<While(Exists(<< <<"a">> >>), <<SetField(<<"c">>, <<"x">>), Exit>>)>>, <<>>, <<>>),
        SaveRow>>),
    SetField(<<"c">>, <<"x">>), SaveRow>>

\* a while loop that ends because its condition becomes false
ScriptWhile ==
  <<GotoUrl(<<"u">>),
    While(Exists(<< <<"a">> >>), <<ExtractList(<<"c">>, << <<"b">>, <<"a">> >>), SaveRow,
        HistoryBack>>),
    HistoryForward, Extract(<<"d">>, << <<"a">> >>), SaveRow>>

\* an inner loop that reuses the variable of the outer loop
ScriptSameName ==
  <<GotoUrl(<<"u">>),
    Foreach(<< <<"l">> >>, <<"@", "v">>,
      <<Foreach(<< <<"@", "v", " ", "a">> >>, <<"@", "v">>, <<Extract(<<"c">>,
          << <<"@", "v">> >>)>>),
        Extract(<<"d">>, << <<"@", "v", " ", "a">> >>), SaveRow>>)>>

ScriptNested ==
  <<GotoUrl(<<"u">>),
    Foreach(<< <<"l">> >>, <<"@", "v">>,
      <<Foreach(<< <<"@", "v", " ", "a">> >>, <<"@", "w">>, <<Extract(<<"c">>,
          << <<"@", "w">> >>)>>),
        Extract(<<"d">>, << <<"@", "v", " ", "a">> >>), SaveRow>>)>>

\* a foreach that reuses the name of an earlier select
ScriptSelect ==
  <<GotoUrl(<<"u">>), Select(<< <<"a">> >>, <<"@", "v">>),
    Foreach(<< <<"b">> >>, <<"@", "v">>, <<Extract(<<"d">>, << <<"@", "v">> >>), SaveRow>>),
    Extract(<<"c">>, << <<"@", "v">> >>), SaveRow>>

\* rows saved in a loop and fields written after them
ScriptSaved ==
  <<GotoUrl(<<"u">>), SetField(<<"d">>, <<"l">>),
    Foreach(<< <<"l">> >>, <<"@", "v">>,
      <<ExtractList(<<"c">>, << <<"@", "v", " ", "a">> >>), SaveRow,
        SetField(<<"d">>, <<"x">>)>>),
    ExtractList(<<"c">>, << <<"a">> >>), SetField(<<"t">>, <<"x">>), ClearRow,
    SetField(<<"c">>, <<"x">>), SaveRow>>

\* selector lists: a fallback that matches, a fallback that names no binding
ScriptFallback ==
  <<GotoUrl(<<"u">>), Extract(<<"c">>, << <<"a">>, <<"b">> >>),
    ExtractList(<<"t">>, << <<"a">>, <<"b">> >>),
    Extract(<<"d">>, << <<"a">>, <<"@", "w", " ", "b">> >>), SaveRow>>

\* and / or whose right operand names no binding
ScriptLogic ==
  <<GotoUrl(<<"u">>),
    If(And(Exists(<< <<"b">> >>), Exists(<< <<"@", "w", " ", "a">> >>)),
       <<SetField(<<"c">>, <<"x">>)>>, <<>>, <<SetField(<<"c">>, <<"l">>)>>),
    If(Or(Exists(<< <<"a">> >>), Exists(<< <<"@", "w", " ", "a">> >>)),
       <<SetField(<<"d">>, <<"x">>)>>, <<>>, <<>>),
    SaveRow>>

\* a while loop whose condition stays true
ScriptLimit ==
  <<GotoUrl(<<"u">>), While(Exists(<< <<"a">> >>), <<SetField(<<"c">>, <<"x">>)>>),
    SetField(<<"d">>, <<"l">>), SaveRow>>

\* an if with three else_if branches; the condition of the last names no
\* binding
ScriptElseIf ==
  <<GotoUrl(<<"u">>),
    If(Exists(<< <<"u">> >>), <<SetField(<<"c">>, <<"x">>)>>,
       << <<Exists(<< <<"l">> >>), <<SetField(<<"c">>, <<"l">>)>> >>,
          <<Exists(<< <<"a">> >>), <<SetField(<<"c">>, <<"a">>)>> >>,
          <<Exists(<< <<"@", "w", " ", "a">> >>), <<SetField(<<"c">>, <<"w">>)>> >> >>,
       <<SetField(<<"c">>, <<"b">>)>>),
    SaveRow>>

\* statements whose selectors name @w, which nothing binds
ScriptUnbound ==
  <<GotoUrl(<<"u">>), SetField(<<"d">>, <<"l">>), SaveRow, SetField(<<"c">>, <<"x">>),
    If(Exists(<< <<"l">> >>), <<Click(<< <<"@", "w">> >>)>>,
       << <<Exists(<< <<"a">> >>),
            <<Foreach(<< <<"@", "w", " ", "a">> >>, <<"@", "v">>, <<SaveRow>>)>> >> >>,
       <<ExtractList(<<"c">>, << <<"@", "w">> >>)>>),
    SaveRow>>

\* the data feed: $k stands for the column k of the data row
ScriptData ==
  <<DataSchema(<< << <<"k">>, <<"$", "k">> >> >>), GotoUrl(<<"$", "k">>), Extract(<<"c">>,
      << <<"$", "k">>, <<"a">> >>), SetField(<<"d">>, <<"$", "k">>),
    Timestamp(<<"t">>), Log(<<"m">>), SaveRow, SetField(<<"d">>, <<"l">>), ClearRow,
    If(Exists(<< <<"b">> >>), <<SetField(<<"c">>, <<"x">>)>>,
       << <<Exists(<< <<"l">> >>), <<SetField(<<"c">>, <<"l">>)>> >> >>, <<Exit>>),
    SaveRow>>

\* the data feed in the selectors of the extract statements
ScriptFeed ==
  <<DataSchema(<< << <<"k">>, <<"$", "k">> >> >>), GotoUrl(<<"x">>),
    Extract(<<"c">>, << <<"$", "k">> >>), ExtractAttributeList(<<"h">>, HREF,
                                                              << <<"$", "k">> >>),
    ExtractList(<<"d">>, << <<"$", "k">> >>), SaveRow>>

\* select with fallbacks: the second select keeps or replaces the binding of
\* the first
ScriptSelectList ==
  <<GotoUrl(<<"u">>), Select(<< <<"b">>, <<"l", " ", "a">>, <<"a">> >>, <<"@", "w">>),
    Select(<< <<"u">>, <<"@", "w", " ", "a">> >>, <<"@", "w">>),
    Extract(<<"c">>, << <<"@", "w">> >>), SaveRow>>

\* a loop whose body loads another page
ScriptChange ==
  <<GotoUrl(<<"u">>), SetField(<<"d">>, <<"l">>),
    Foreach(<< <<"l">> >>, <<"@", "v">>,
      <<Extract(<<"c">>, << <<"@", "v", " ", "a">> >>), SaveRow, GotoUrl(<<"x">>)>>)>>

Scripts ==
  <<ScriptRows, ScriptClickTop, ScriptClickIf, ScriptClickLoop, ScriptHref, ScriptAttributes,
    ScriptThrow, ScriptExit, ScriptWhile, ScriptSameName, ScriptNested, ScriptSelect,
    ScriptData, ScriptSaved, ScriptFallback, ScriptLogic, ScriptLimit, ScriptElseIf,
    ScriptUnbound, ScriptFeed, ScriptSelectList, ScriptChange>>

\* the data file with n rows: column k holds a tag name
DataRow(i) == (<<"k">> :> (IF i % 2 = 1 THEN <<"a">> ELSE <<"b">>))

Feed(n) == [i \in 1..n |-> DataRow(i)]

\* ------------------------------------------------------------- script texts
\* the text of a script: what a file that parses to the statements holds
Quoted(s) == <<QUOTE>> \o s \o <<QUOTE>>

RECURSIVE SelectorsText(_, _)
SelectorsText(selectors, i) ==
  IF i > Len(selectors) THEN <<>>
  ELSE (IF i > 1 THEN <<",", SP>> ELSE <<>>) \o Quoted(selectors[i])
       \o SelectorsText(selectors, i + 1)

RECURSIVE ConditionText(_)
ConditionText(condition) ==
  IF condition.type = "CONDITION_EXISTS"
  THEN EXISTS \o <<SP>> \o SelectorsText(condition.selectors, 1)
  ELSE IF condition.type = "CONDITION_NOT"
  THEN <<"n", "o", "t", " ">> \o ConditionText(condition.operand)
  ELSE <<"(">> \o ConditionText(condition.left)
       \o (IF condition.type = "CONDITION_AND" THEN <<" ", "a", "n", "d", " ">> ELSE <<" ", "o", "r", " ">>)
       \o ConditionText(condition.right) \o <<")">>

\* the string arguments of a command, in the order its method eats them
CommandValues(statement) ==
  IF statement.type = "GOTO_URL" THEN <<statement.url>>
  ELSE IF statement.type \in {"EXTRACT", "EXTRACT_LIST", "TIMESTAMP"}
  THEN <<statement.column_name>>
  ELSE IF statement.type \in {"EXTRACT_ATTRIBUTE", "EXTRACT_ATTRIBUTE_LIST"}
  THEN <<statement.column_name, statement.attribute>>
  ELSE IF statement.type = "SET_FIELD" THEN <<statement.column_name, statement.value>>
  ELSE IF statement.type \in {"LOG", "THROW"} THEN <<statement.message>>
  ELSE <<>>

RECURSIVE ValuesText(_)
ValuesText(values) ==
  IF values = <<>> THEN <<>> ELSE <<SP>> \o Quoted(values[1]) \o ValuesText(Tail(values))

CommandNamed(type) ==
  CommandTable[CHOOSE i \in 1..Len(CommandTable) : CommandTable[i].type = type].name

RECURSIVE StatementText(_), StatementsText(_), ElseIfsText(_)
StatementText(statement) ==
  IF statement.type = "IF"
  THEN <<"i", "f", " ">> \o ConditionText(statement.condition) \o <<NL>>
       \o StatementsText(statement.true_branch)
       \o ElseIfsText(statement.else_if_branches)
       \o (IF statement.false_branch # <<>>
           THEN <<"e", "l", "s", "e", "\n">> \o StatementsText(statement.false_branch)
           ELSE <<>>)
       \o <<"e", "n", "d", "_", "i", "f", "\n">>
  ELSE IF statement.type = "FOREACH"
  THEN <<"f", "o", "r", "e", "a", "c", "h", " ">> \o SelectorsText(statement.selectors, 1)
       \o <<" ", "a", "s", " ">> \o statement.element_var_name \o <<NL>>
       \o StatementsText(statement.loop_body)
       \o <<"e", "n", "d", "_", "f", "o", "r", "e", "a", "c", "h", "\n">>
  ELSE IF statement.type = "WHILE"
  THEN <<"w", "h", "i", "l", "e", " ">> \o ConditionText(statement.condition) \o <<NL>>
       \o StatementsText(statement.loop_body)
       \o <<"e", "n", "d", "_", "w", "h", "i", "l", "e", "\n">>
  ELSE IF statement.type = "SELECT"
  THEN <<"s", "e", "l", "e", "c", "t", " ">> \o SelectorsText(statement.selectors, 1)
       \o <<" ", "a", "s", " ">> \o statement.element_var_name \o <<NL>>
  ELSE CommandNamed(statement.type) \o ValuesText(CommandValues(statement))
       \o (IF statement.selectors # <<>>
           THEN <<SP>> \o SelectorsText(statement.selectors, 1) ELSE <<>>)
       \o <<NL>>

StatementsText(statements) ==
  IF statements = <<>> THEN <<>>
  ELSE StatementText(statements[1]) \o StatementsText(Tail(statements))

ElseIfsText(else_if_branches) ==
  IF else_if_branches = <<>> THEN <<>>
  ELSE <<"e", "l", "s", "e", "_", "i", "f", " ">> \o ConditionText(else_if_branches[1][1]) \o <<NL>>
       \o StatementsText(else_if_branches[1][2]) \o ElseIfsText(Tail(else_if_branches))

\* the scripts of the interpreter's runs that a file can hold (a file has
\* no data_schema block)
ParsableScripts ==
  {i \in 1..Len(Scripts) : \A k \in 1..Len(Scripts[i]) : Scripts[i][k].type # "DATA_SCHEMA"}

ScriptTexts == {StatementsText(Scripts[i]) : i \in ParsableScripts}

\* every text of at most MaxSourceLen of these characters
SourceChars == {QUOTE, "a", NL, SP, BACKSLASH, HASH, "("}

ShortTexts == UNION {[1..n -> SourceChars] : n \in 0..MaxSourceLen}

\* phrases joined by single spaces
RECURSIVE Joined(_, _)
Joined(phrases, picks) ==
  IF picks = <<>> THEN <<>>
  ELSE phrases[picks[1]] \o (IF Len(picks) > 1 THEN <<SP>> ELSE <<>>)
       \o Joined(phrases, Tail(picks))

Picks(phrases, most) == UNION {[1..n -> 1..Len(phrases)] : n \in 0..most}

\* the lines scripts of at most MaxPhrases phrases are made of
StatementPhrases ==
  <<
    <<"s", "a", "v", "e", "_", "r", "o", "w">>,
    <<"\n">>,
    <<"i", "f", " ", "e", "x", "i", "s", "t", "s", " ", "'", "a", "'">>,
    <<"e", "l", "s", "e">>,
    <<"e", "n", "d", "_", "i", "f">>,
    <<"f", "o", "r", "e", "a", "c", "h", " ", "'", "a", "'", " ", "a", "s", " ", "@", "v">>,
    <<"e", "n", "d", "_", "f", "o", "r", "e", "a", "c", "h">>,
    <<"s", "e", "l", "e", "c", "t", " ", "'", "a", "'", " ", "a", "s", " ", "v">>,
    <<"'", "a", "'">>,
    <<"a", "n", "d">>,
    <<"f", "o", "o">>,
    <<"e", "x", "t", "r", "a", "c", "t", " ", "'", "c", "'">>
  >>

StatementTexts ==
  {Joined(StatementPhrases, picks) : picks \in Picks(StatementPhrases, MaxPhrases)}

\* the words the conditions of at most MaxConditionLen words are made of
ConditionPhrases ==
  <<
    <<"e", "x", "i", "s", "t", "s", " ", "'", "a", "'">>,
    <<"e", "x", "i", "s", "t", "s", " ", "'", "b", "'">>,
    <<"e", "x", "i", "s", "t", "s", " ", "'", "c", "'">>,
    <<"a", "n", "d">>,
    <<"o", "r">>,
    <<"n", "o", "t">>,
    <<"(">>,
    <<")">>
  >>

\* an if statement with the condition and no branch
ConditionScript(picks) ==
  <<"i", "f", " ">> \o Joined(ConditionPhrases, picks) \o <<"\n", "e", "n", "d", "_", "i", "f">>

\* ( A or B ) and C, not ( A or B ), ( A and B ) or ( C )
LongConditions == {<<7, 1, 5, 2, 8, 4, 3>>, <<6, 7, 1, 5, 2, 8>>, <<7, 1, 4, 2, 8, 5, 7, 3, 8>>}

ConditionTexts ==
  {ConditionScript(picks) : picks \in Picks(ConditionPhrases, MaxConditionLen) \cup LongConditions}

\* texts with the other keywords, punctuation, comments and quotes
ChosenTexts ==
  <<
    <<"(">>,
    <<",">>,
    <<"a", "s">>,
    <<"e", "l", "s", "e">>,
    <<"e", "n", "d", "_", "i", "f">>,
    <<")">>,
    <<"o", "r">>,
    <<"n", "o", "t">>,
    <<"w", "h", "i", "l", "e", " ", "e", "x", "i", "s", "t", "s", " ", "'", "a", "'", "\n", "s",
    "a", "v", "e", "_", "r", "o", "w">>,
    <<"w", "h", "i", "l", "e", " ", "e", "x", "i", "s", "t", "s", " ", "'", "a", "'", "\n", "e",
    "n", "d", "_", "w", "h", "i", "l", "e">>,
    <<"i", "f", " ", "e", "x", "i", "s", "t", "s", " ", "'", "a", "'", "\n", "e", "l", "s", "e",
    "\n", "s", "a", "v", "e", "_", "r", "o", "w">>,
    <<"i", "f", " ", "e", "x", "i", "s", "t", "s", " ", "'", "a", "'", "\n", "e", "l", "s", "e",
    "_", "i", "f", " ", "e", "x", "i", "s", "t", "s", " ", "'", "b", "'", "\n", "s", "a", "v",
    "e", "_", "r", "o", "w">>,
    <<"i", "f", " ", "e", "x", "i", "s", "t", "s", " ", "'", "a", "'", "\n", "s", "a", "v", "e",
    "_", "r", "o", "w", "\n", "e", "l", "s", "e", "_", "i", "f", " ", "e", "x", "i", "s", "t",
    "s", " ", "'", "b", "'", "\n", "e", "l", "s", "e", "\n", "l", "o", "g", " ", "'", "m", "'",
    "\n", "e", "n", "d", "_", "i", "f", "\n">>,
    <<"f", "o", "r", "e", "a", "c", "h", " ", "'", "a", "'", " ", "a", "s", " ", "v", "\n", "e",
    "n", "d", "_", "f", "o", "r", "e", "a", "c", "h">>,
    <<"s", "e", "l", "e", "c", "t", " ", "'", "a", "'", " ", "a", "s", " ", "@", "v">>,
    <<"s", "e", "l", "e", "c", "t", " ", "'", "a", "'">>,
    <<"g", "o", "t", "o", "_", "u", "r", "l", " ", "'", "u", "'", "\n", "s", "e", "l", "e", "c",
    "t", " ", "'", "a", "'", " ", "a", "s", " ", "v">>,
    <<"g", "o", "t", "o", "_", "u", "r", "l", " ", "'", "u", "'", "\n", "f", "o", "r", "e", "a",
    "c", "h", " ", "'", "l", "'", " ", "a", "s", " ", "v", "\n", "s", "a", "v", "e", "_", "r",
    "o", "w", "\n", "e", "n", "d", "_", "f", "o", "r", "e", "a", "c", "h">>,
    <<"i", "f", " ", "(", "e", "x", "i", "s", "t", "s", " ", "'", "a", "'", " ", "o", "r", " ",
    "e", "x", "i", "s", "t", "s", " ", "'", "b", "'", ")", " ", "a", "n", "d", " ", "e", "x",
    "i", "s", "t", "s", " ", "'", "c", "'", "\n", "e", "n", "d", "_", "i", "f">>,
    <<"i", "f", " ", "n", "o", "t", " ", "(", "e", "x", "i", "s", "t", "s", " ", "'", "a", "'",
    " ", "o", "r", " ", "e", "x", "i", "s", "t", "s", " ", "'", "b", "'", ")", "\n", "e", "n",
    "d", "_", "i", "f">>,
    <<"i", "f", " ", "(", "e", "x", "i", "s", "t", "s", " ", "'", "a", "'", "\n", "e", "n", "d",
    "_", "i", "f">>,
    <<"i", "f", " ", "'", "a", "'", "\n", "e", "n", "d", "_", "i", "f">>,
    <<"i", "f", " ", "e", "x", "i", "s", "t", "s", " ", "'", "a", "'", " ", "s", "a", "v", "e",
    "_", "r", "o", "w", "\n", "e", "n", "d", "_", "i", "f">>,
    <<"i", "f", " ", "e", "x", "i", "s", "t", "s", " ", "'", "a", "'", "\n", "e", "n", "d", "_",
    "i", "f", " ", "s", "a", "v", "e", "_", "r", "o", "w">>,
    <<"s", "a", "v", "e", "_", "r", "o", "w", " ", "#", " ", "c", "\n", "s", "a", "v", "e", "_",
    "r", "o", "w", "\n">>,
    <<"I", "F", " ", "e", "x", "i", "s", "t", "s", " ", "'", "a", "'", "\n", "E", "N", "D", "_",
    "I", "F">>,
    <<"l", "o", "g", " ", "\"", "a", "\\", "'", "b", "\\", "n", "\"">>,
    <<"s", "e", "t", "_", "f", "i", "e", "l", "d", " ", "'", "c", "'", " ", "'", "x", "'", " ",
    "s", "a", "v", "e", "_", "r", "o", "w">>,
    <<"e", "x", "t", "r", "a", "c", "t", " ", "'", "c", "'", " ", "'", "a", "'", ",", " ", "'",
    "b", "'", "\n", "s", "a", "v", "e", "_", "r", "o", "w">>,
    <<"c", "l", "i", "c", "k", " ", "'", "a", "'", ",">>,
    <<"s", "a", "v", "e", "_", "r", "o", "w", "\n", "\n", "'", "a", "\n", "b">>,
    <<"l", "o", "g", " ", "'", "m", "'", "\n", " ", " ", "l", "o", "g", " ", "'", "a", "\n",
    "\n", "b">>,
    <<"@", " ", "'", "a", "'">>,
    <<"l", "o", "g", " ", "'", "a", "'", " ", "$">>,
    <<"t", "i", "m", "e", "s", "t", "a", "m", "p", " ", "'", "t", "'", "\n", "s", "a", "v", "e", "_",
      "r", "o", "w", "\n">>,
    <<"e", "x", "t", "r", "a", "c", "t", " ", "'", "a", "'">>
  >>

SourceTexts == ShortTexts \cup StatementTexts \cup ConditionTexts \cup ScriptTexts
               \cup {ChosenTexts[i] : i \in 1..Len(ChosenTexts)}

\* ------------------------------------------------------------- behaviours
\* Interpreter.__init__ and PlaywrightAutomation.__init__
Constructed ==
  /\ phase = "idle"
  /\ frames = <<>>
  /\ ctl = "run"
  /\ exc = NoExc
  /\ todo = 0
  /\ current_row = EmptyDict
  /\ rows = <<>>
  /\ data_schema = EmptyDict
  /\ current_data_row = EmptyDict
  /\ data_rows = <<>>
  /\ element_references = EmptyDict
  /\ foreach_indexes = EmptyDict
  /\ row_state_stack = <<>>
  /\ ids = [current_row |-> 0, rows |-> <<>>, row_state_stack |-> <<>>]
  /\ browser_automation = FALSE
  /\ tabs = <<>>
  /\ current_tab_index = 0 - 1
  /\ resources = FALSE
  /\ cleanups = 0
  /\ last = [type |-> "none", branch |-> "none", depth |-> 0, run |-> 0]
  /\ executed = 0
  /\ queried = <<>>
  /\ driver_calls = 0
  /\ reported = <<>>
  /\ result = [status |-> "pending", rows |-> <<>>]
  /\ called = [op |-> "none", index |-> 0 - 1, before |-> "none", from |-> 0 - 1]

\* parser.parse() has returned the script
FrontDone ==
  /\ script_text = <<>>
  /\ tokens = <<>>
  /\ parser = NewParser
  /\ stage = "parsed"
  /\ error = NoError

\* run_script's default implementation
Init ==
  /\ \E i \in 1..Len(Scripts) : ast = Scripts[i]
  /\ data_file \in BOOLEAN
  /\ \E n \in 0..MaxDataRows : feed = Feed(n) /\ (~data_file => n = 0)
  /\ browser_impl = "playwright"
  /\ machine = NoMachine
  /\ FrontDone
  /\ Constructed

Next ==
  \/ Launch
  \/ BeginRun
  \/ execute_goto_url
  \/ execute_goto_href
  \/ execute_extract
  \/ execute_extract_list
  \/ execute_extract_attribute
  \/ execute_extract_attribute_list
  \/ execute_save_row
  \/ execute_clear_row
  \/ execute_set_field
  \/ execute_click
  \/ execute_history_back
  \/ execute_history_forward
  \/ execute_log
  \/ execute_throw
  \/ execute_timestamp
  \/ execute_exit
  \/ execute_select
  \/ execute_data_schema
  \/ execute_if
  \/ IfReturn
  \/ IfUnwind
  \/ execute_foreach
  \/ ForeachNext
  \/ ForeachUnwind
  \/ execute_while
  \/ WhileTest
  \/ WhileUnwind
  \/ ProgramReturn
  \/ EndOfTry
  \/ Finally

Spec == Init /\ [][Next]_vars

\* ------------------------------------------------------- run_script
\* the variables run_script's front end leaves alone
Unlaunched ==
  UNCHANGED <<data_file, feed, browser_impl, machine, script_text, control, rowvars, refvars, ids,
              datavars, drivervars, observed, callervars>>

\* an exception leaves run_script
FrontRaise(raised) == stage' = "failed" /\ error' = raised /\ UNCHANGED <<parser, ast>>

\* tokens = Lexer(script_text).tokenize(); parser = Parser(tokens)
Tokenize ==
  /\ stage = "lexing"
  /\ \E lexed \in {tokenize(script_text)} :
       IF lexed.ok
       THEN stage' = "parsing" /\ tokens' = lexed.tokens /\ UNCHANGED error
       ELSE stage' = "failed" /\ error' = lexed.error /\ UNCHANGED tokens
  /\ parser' = NewParser
  /\ UNCHANGED ast
  /\ Unlaunched

\* the innermost block being parsed
Innermost == parser.blocks[Len(parser.blocks)]

\* the condition of the loop the parser is in holds
InLoop ==
  /\ stage = "parsing"
  /\ IF parser.blocks = <<>> THEN current_token(tokens, parser.pos).type # "EOF"
     ELSE current_token(tokens, parser.pos).type \notin Terminators(Innermost)

\* the statement goes to the list of the loop the parser is in; a block's
\* loop skips the newlines after it
Appended(statement) ==
  IF parser.blocks = <<>>
  THEN [parser EXCEPT !.pos = statement.pos, !.children = Append(@, statement.node)]
  ELSE [parser EXCEPT !.pos = skip_newlines(tokens, statement.pos),
                      !.blocks[Len(parser.blocks)].statements = Append(@, statement.node)]

\* parse_statement returned None at EOF: the position is where it was when
\* there was no newline to skip
Nothing(pos) ==
  [parser EXCEPT !.pos = pos,
                 !.idle = IF pos = parser.pos /\ @ < MaxIdle THEN @ + 1 ELSE @]

\* one iteration of a statement loop whose parse_statement call returns
\* None, a simple statement or select, or raises
parse_statement ==
  /\ InLoop
  /\ \E pos \in {skip_newlines(tokens, parser.pos)} :
       /\ current_token(tokens, pos).type \notin {"IF", "FOREACH", "WHILE"}
       /\ IF current_token(tokens, pos).type = "EOF"
          THEN parser' = Nothing(pos) /\ UNCHANGED <<stage, error, ast>>
          ELSE \E statement \in {SimpleStatement(tokens, pos)} :
                 IF statement.ok
                 THEN parser' = Appended(statement) /\ UNCHANGED <<stage, error, ast>>
                 ELSE FrontRaise(statement.error)
  /\ UNCHANGED tokens
  /\ Unlaunched

BlockKind(type) == IF type = "IF" THEN "if" ELSE IF type = "FOREACH" THEN "foreach" ELSE "while"

\* the first line of parse_if_statement, parse_foreach_statement or
\* parse_while_statement at pos
Header(pos) ==
  IF current_token(tokens, pos).type = "FOREACH" THEN ForeachHeader(tokens, pos)
  ELSE IF current_token(tokens, pos).type = "WHILE"
  THEN ConditionHeader(tokens, pos, "Expected newline after while condition")
  ELSE ConditionHeader(tokens, pos, "Expected newline after condition")

\* one iteration whose parse_statement call enters a block
parse_block_statement ==
  /\ InLoop
  /\ \E pos \in {skip_newlines(tokens, parser.pos)} :
       /\ current_token(tokens, pos).type \in {"IF", "FOREACH", "WHILE"}
       /\ \E header \in {Header(pos)} :
            IF header.ok
            THEN /\ parser' = [parser EXCEPT
                                 !.pos = header.pos,
                                 !.blocks = Append(@, Block(BlockKind(current_token(tokens,
                                                                                    pos).type),
                                                            IF current_token(tokens, pos).type
                                                               = "IF"
                                                            THEN "true" ELSE "body",
                                                            header.node))]
                 /\ UNCHANGED <<stage, error, ast>>
            ELSE FrontRaise(header.error)
  /\ UNCHANGED tokens
  /\ Unlaunched

\* the parser is in the true branch or an else_if branch of an if and at tok
AfterBranch(type) ==
  /\ stage = "parsing" /\ parser.blocks # <<>>
  /\ Innermost.kind = "if" /\ Innermost.part \in {"true", "else_if"}
  /\ current_token(tokens, parser.pos).type = type

\* while self.current_token.type == TokenType.ELSE_IF: the next branch
parse_else_if ==
  /\ AfterBranch("ELSE_IF")
  /\ \E header \in {ConditionHeader(tokens, parser.pos,
                                    "Expected newline after else_if condition")} :
       IF header.ok
       THEN /\ parser' = [parser EXCEPT
                            !.pos = header.pos,
                            !.blocks[Len(parser.blocks)] =
                               [BranchDone(Innermost) EXCEPT !.part = "else_if",
                                                             !.else_if_condition = header.node]]
            /\ UNCHANGED <<stage, error, ast>>
       ELSE FrontRaise(header.error)
  /\ UNCHANGED tokens
  /\ Unlaunched

\* if self.current_token.type == TokenType.ELSE: the false branch
parse_else ==
  /\ AfterBranch("ELSE")
  /\ parser' = [parser EXCEPT
                  !.pos = skip_newlines(tokens, parser.pos + 1),
                  !.blocks[Len(parser.blocks)] = [BranchDone(Innermost) EXCEPT !.part = "else"]]
  /\ UNCHANGED <<stage, error, ast, tokens>>
  /\ Unlaunched

\* the parser with its innermost block left
Outer == [parser EXCEPT !.blocks = SubSeq(@, 1, Len(@) - 1)]

\* the statement goes to the list of the loop around the innermost block
AppendedOuter(statement) ==
  IF Len(parser.blocks) = 1
  THEN [Outer EXCEPT !.pos = statement.pos, !.children = Append(@, statement.node)]
  ELSE [Outer EXCEPT !.pos = skip_newlines(tokens, statement.pos),
                     !.blocks[Len(parser.blocks) - 1].statements = Append(@, statement.node)]

\* self.eat(END_IF / END_FOREACH / END_WHILE), the node, and the end of the
\* parse_statement call that entered the block
parse_block_end ==
  /\ stage = "parsing" /\ parser.blocks # <<>>
  /\ current_token(tokens, parser.pos).type \in
       Terminators(Innermost) \ {"ELSE", "ELSE_IF"}
  /\ \E statement \in {StatementEnd(tokens, Parsed(BlockNode(Innermost), parser.pos + 1))} :
       IF statement.ok
       THEN parser' = AppendedOuter(statement) /\ UNCHANGED <<stage, error, ast>>
       ELSE FrontRaise(statement.error)
  /\ UNCHANGED tokens
  /\ Unlaunched

\* parse() returns the root; interpreter = Interpreter(ast)
parse ==
  /\ stage = "parsing" /\ parser.blocks = <<>>
  /\ current_token(tokens, parser.pos).type = "EOF"
  /\ stage' = "parsed"
  /\ ast' = parser.children
  /\ UNCHANGED <<parser, error, tokens>>
  /\ Unlaunched

\* the script file is read
FrontInit ==
  /\ script_text \in SourceTexts
  /\ tokens = <<>>
  /\ parser = NewParser
  /\ stage = "lexing"
  /\ error = NoError
  /\ ast = <<>>
  /\ data_file = FALSE
  /\ feed = <<>>
  /\ browser_impl = "playwright"
  /\ machine = NoMachine
  /\ Constructed

\* run_script: the lexer, the parser, then execute() on what was parsed
FrontNext ==
  \/ Tokenize
  \/ parse_statement
  \/ parse_block_statement
  \/ parse_else_if
  \/ parse_else
  \/ parse_block_end
  \/ parse
  \/ Launch
  \/ BeginRun
  \/ execute_goto_url
  \/ execute_goto_href
  \/ execute_extract
  \/ execute_extract_list
  \/ execute_extract_attribute
  \/ execute_extract_attribute_list
  \/ execute_save_row
  \/ execute_clear_row
  \/ execute_set_field
  \/ execute_click
  \/ execute_history_back
  \/ execute_history_forward
  \/ execute_log
  \/ execute_throw
  \/ execute_timestamp
  \/ execute_exit
  \/ execute_select
  \/ execute_if
  \/ IfReturn
  \/ IfUnwind
  \/ execute_foreach
  \/ ForeachNext
  \/ ForeachUnwind
  \/ execute_while
  \/ WhileTest
  \/ WhileUnwind
  \/ ProgramReturn
  \/ EndOfTry
  \/ Finally

FrontSpec == FrontInit /\ [][FrontNext]_vars

\* ------------------------------------------------------- the driver alone
\* a client of the BrowserAutomation interface calling its operations in any order
Implementations == {"playwright", "puppeteer"}

DriverInit ==
  /\ ast = <<>>
  /\ data_file = FALSE
  /\ feed = <<>>
  /\ browser_impl \in Implementations
  /\ machine = NoMachine
  /\ FrontDone
  /\ Constructed

Untouched ==
  UNCHANGED <<inputs, control, rowvars, refvars, ids, datavars, observed, reported, result>>

\* the client records its call
Calls(op) ==
  called' = [op |-> op, index |-> current_tab_index, before |-> called.op,
             from |-> called.index]

\* BrowserFactory.create and launch: Playwright opens a blank tab
DriverLaunch ==
  /\ ~resources
  /\ browser_automation' = TRUE
  /\ resources' = TRUE
  /\ IF browser_impl = "playwright"
     THEN tabs' = <<1>> /\ current_tab_index' = 0
     ELSE UNCHANGED <<tabs, current_tab_index>>
  /\ Calls("launch")
  /\ UNCHANGED cleanups
  /\ Untouched

DriverGoto ==
  /\ browser_impl = "playwright" /\ resources /\ Len(tabs) < MaxTabs
  /\ \E page \in 1..Len(Pages), loaded \in BOOLEAN :
       goto(page, loaded) /\ Calls(IF loaded THEN "goto" ELSE "goto_raised")
  /\ UNCHANGED <<browser_automation, resources, cleanups>>
  /\ Untouched

DriverBack ==
  /\ browser_impl = "playwright" /\ resources
  /\ go_back
  /\ Calls("go_back")
  /\ UNCHANGED <<browser_automation, resources, cleanups>>
  /\ Untouched

DriverForward ==
  /\ browser_impl = "playwright" /\ resources
  /\ go_forward
  /\ Calls("go_forward")
  /\ UNCHANGED <<browser_automation, resources, cleanups>>
  /\ Untouched

DriverCleanup ==
  /\ browser_automation /\ cleanups < MaxCleanups
  /\ cleanup
  /\ Calls("cleanup")
  /\ UNCHANGED browser_automation
  /\ Untouched

DriverNext ==
  \/ DriverLaunch
  \/ DriverGoto
  \/ DriverBack
  \/ DriverForward
  \/ DriverCleanup

DriverSpec == DriverInit /\ [][DriverNext]_vars

\* ------------------------------------------------- the legacy stack machine
\* the lines of a file of steps: a line that cannot be parsed, the steps
\* without arguments about the flow, and the jumps to each line
Jumps ==
  {Line("GOTO_LINE", k, 0, 0) : k \in 1..MaxLines}
    \cup {Line("IF_EXISTS", 0 - 1, k, MaxLines) : k \in 1..MaxLines}

Lines ==
  {Line("BAD", 0 - 1, 0, 0), Line("END", 0 - 1, 0, 0), Line("SAVE_ROW", 0 - 1, 0, 0),
   Line("LOG", 0 - 1, 0, 0), Line("EXTRACT", 0 - 1, 0, 0), Line("CLICK", 0 - 1, 0, 0),
   Line("GOTO_URL", 0 - 1, 0, 0)} \cup Jumps

Files == UNION {[1..n -> Lines] : n \in 0..MaxLines}

\* StackMachine(parse_file(file), wrapper) on one of the files
MachineInit ==
  /\ ast = <<>>
  /\ data_file = FALSE
  /\ feed = <<>>
  /\ browser_impl = "playwright"
  /\ \E file \in Files : machine = StackMachine(parse_file(file))
  /\ FrontDone
  /\ Constructed

Idle ==
  UNCHANGED <<ast, data_file, feed, browser_impl, front, control, rowvars, refvars, ids,
              datavars, drivervars, observed, callervars>>

\* the step execute_steps is at
CurrentStep == machine.steps_by_id[machine.current_step]

\* execute_steps up to its loop: current_step = self.steps_by_id[1]
execute_steps ==
  /\ machine.state = "constructed"
  /\ \E first \in {Lookup(machine.steps_by_id, 1)} :
       machine' = [machine EXCEPT
                     !.current_step = first.current_step,
                     !.error = first.error,
                     !.state = IF first.error = "none" THEN "running" ELSE "raised"]
  /\ Idle

\* the row and the data the step is executed with
Saved(m) ==
  IF m.steps_by_id[m.current_step].type = "SAVE_ROW"
  THEN [m EXCEPT !.data = Append(@, m.current_row), !.current_row = <<>>]
  ELSE m

\* the machine after the step returned or raised
Stepped(m, executed_step, next) ==
  IF executed_step.raised
  THEN [m EXCEPT !.state = "raised", !.error = "Exception"]
  ELSE [m EXCEPT !.current_row = executed_step.row,
                 !.current_step = next.current_step,
                 !.error = next.error,
                 !.state = IF next.error = "none" THEN "running" ELSE "raised"]

\* one iteration of the loop of execute_steps
Iteration ==
  /\ machine.state = "running" /\ CurrentStep.type # "END"
  /\ CurrentStep.type = "SAVE_ROW" => Len(machine.data) < MaxSaved
  /\ \E found \in BOOLEAN :
     \E executed_step \in {execute_and_get_next_step(CurrentStep, Saved(machine).current_row,
                                                    found)} :
     \E next \in {NextStep(machine.steps_by_id, CurrentStep.id, executed_step.next_step_id)} :
       machine' = Stepped(Saved(machine), executed_step, next)
  /\ Idle

\* the loop ends: return data
Return ==
  /\ machine.state = "running" /\ CurrentStep.type = "END"
  /\ machine' = [machine EXCEPT !.state = "returned"]
  /\ Idle

MachineNext ==
  \/ execute_steps
  \/ Iteration
  \/ Return

MachineSpec == MachineInit /\ [][MachineNext]_vars

TypeOK ==
  /\ phase \in {"idle", "executing", "terminating", "done"}
  /\ ctl \in {"run", "stop", "raise"}
  /\ cleanups \in 0..1

\* ------------------------------------------------------------- properties
\* the handler of the statement at hand returned True
Continued == ctl' = "run" /\ frames' = [frames EXCEPT ![Len(frames)].pc = @ + 1]

\* a call of execute_foreach or execute_while ends in this step
LoopEnds ==
  /\ phase = "executing" /\ frames # <<>>
  /\ Top.kind \in {"foreach", "while"}
  /\ Len(frames') < Len(frames)

\* foreach and while calls in progress
LoopDepth == Cardinality({k \in DOMAIN frames : frames[k].kind \in {"foreach", "while"}})

\* C1: when execute_foreach or execute_while finishes, whether its body ran
\* to the end, executed exit or raised, or the loop never started,
\* element_references and foreach_indexes hold no entry for the loop variable
\* and row_state_stack is as long as it was before the loop statement.
C1_LoopExitCleansUp ==
  [][ /\ (AtStmt("FOREACH") /\ Len(frames') = Len(frames)) =>
           /\ node.element_var_name \notin DOMAIN element_references'
           /\ node.element_var_name \notin DOMAIN foreach_indexes'
           /\ Len(row_state_stack') = Len(row_state_stack)
      /\ LoopEnds =>
           /\ Top.kind = "foreach" =>
                /\ Top.var \notin DOMAIN element_references'
                /\ Top.var \notin DOMAIN foreach_indexes'
           /\ Len(row_state_stack') = Top.stack
    ]_vars

\* C2: a click that finds no element, or whose driver click returns false,
\* is followed by the statement after it: the handler returns True.
C2_FailedClickContinues ==
  [][ (AtStmt("CLICK") /\ last'.branch \in {"no_element", "click_failed"}) => Continued ]_vars

\* C3: a goto_href that finds no element, or an element without a usable
\* href, navigates nowhere and is followed by the statement after it.
C3_GotoHrefSoftFailure ==
  [][ (AtStmt("GOTO_HREF") /\ last'.branch \in {"no_element", "no_href", "no_attribute"}) =>
        /\ Continued
        /\ tabs' = tabs /\ current_tab_index' = current_tab_index
    ]_vars

\* C4: extract_attribute on an element that lacks the attribute stores null
\* under the column, extract_attribute_list stores a list without the
\* elements that lack it; neither raises and the next statement follows.
C4_MissingAttributeStored ==
  [][ /\ (AtStmt("EXTRACT_ATTRIBUTE") /\ last'.branch = "no_attribute") =>
           /\ Continued
           /\ current_row' = Put(current_row, node.column_name, None)
      /\ (AtStmt("EXTRACT_ATTRIBUTE_LIST") /\ last'.branch = "no_attribute") =>
           /\ Continued
           /\ node.column_name \in DOMAIN current_row'
           /\ current_row'[node.column_name].kind = "list"
    ]_vars

\* C5: a run of execute() that got a browser calls cleanup() exactly once:
\* not before execute() is over, once when it is, whether the program ended,
\* executed exit or raised; after cleanup no statement runs and the driver
\* is not called.
C5_CleanupExactlyOnce ==
  /\ [](cleanups = IF phase = "done" /\ browser_automation THEN 1 ELSE 0)
  /\ [][cleanups > 0 => (executed' = executed /\ driver_calls' = driver_calls)]_vars

C5_Witness ==
  /\ phase = "done" /\ cleanups = 1
  /\ last.type = "THROW" /\ executed > 3

\* C6 as stated: after a throw the caller of execute() gets the error.
C6_ThrowReachesCaller ==
  (phase = "done" /\ last.type = "THROW") => result.status = "raised"

\* C6: the error of a throw carries the message of the statement; execute()
\* prints it, calls cleanup and then returns the rows: the caller gets a
\* normal return and no exception.
C6_ThrowIsPrintedAndRowsReturned ==
  (phase = "done" /\ last.type = "THROW") =>
     /\ reported = <<[kind |-> "ScriptError", message |-> <<"m">>]>>
     /\ cleanups = 1
     /\ result = [status |-> "returned", rows |-> rows]

C6_Witness ==
  /\ phase = "done" /\ last.type = "THROW"
  /\ Len(reported) = 1 /\ Len(result.rows) > 0

\* C7: rows grows only when save_row appends current_row, so an error adds
\* nothing to it, and after an error execute() returns rows as it is: the
\* rows saved before the failure, in the order they were saved.
C7_FailedRunReturnsSavedRows ==
  /\ [][rows' # rows => (AtStmt("SAVE_ROW") /\ rows' = Append(rows, current_row))]_vars
  /\ []((phase = "done" /\ reported # <<>>) => result = [status |-> "returned", rows |-> rows])

C7_Witness ==
  /\ phase = "done" /\ reported # <<>>
  /\ Len(result.rows) > 0
  /\ current_row # EmptyDict
  /\ \A k \in 1..Len(result.rows) : result.rows[k] # current_row

\* C8 as stated: once exit or throw has executed no statement executes, no
\* row is appended, current_row does not change and the driver is not called.
C8_NothingAfterExitOrThrow ==
  [][ last.type \in {"EXIT", "THROW"} =>
        /\ executed' = executed
        /\ rows' = rows
        /\ current_row' = current_row
        /\ driver_calls' = driver_calls
    ]_vars

\* C8: once exit or throw has executed, at any depth of foreach, while and
\* if, no later statement of that run of the program executes: no row is
\* appended, the driver is not called but for cleanup, and current_row
\* changes only when the run for the next data row starts, which happens
\* after exit and never after throw.
C8_NothingAfterExitOrThrowInTheRun ==
  [][ (last.type \in {"EXIT", "THROW"} /\ last.run = todo) =>
        /\ executed' = executed
        /\ rows' = rows
        /\ driver_calls' = driver_calls
        /\ tabs' = tabs \/ phase = "terminating"
        /\ IF todo' = todo THEN current_row' = current_row
           ELSE last.type = "EXIT" /\ data_file /\ current_row' = EmptyDict
    ]_vars

C8_Witness ==
  /\ last.type = "EXIT" /\ last.depth = 4
  /\ ctl = "stop" /\ frames = <<>>
  /\ row_state_stack = <<>>

\* C9: while a statement of a loop body executes, and at every other point
\* of execute(), row_state_stack is as long as the number of foreach and
\* while loops being executed.
C9_StackDepthIsLoopDepth == Len(row_state_stack) = LoopDepth

C9_Witness ==
  /\ AtStmt("SET_FIELD")
  /\ LoopDepth = 2 /\ Len(frames) = 4
  /\ Len(row_state_stack) = 2

\* C10: whenever a statement of a foreach body is about to execute,
\* element_references holds the variable of every enclosing foreach, also
\* after an inner foreach with the same variable name has ended.
C10_EnclosingVariablesBound ==
  (phase = "executing" /\ ctl = "run" /\ frames # <<>>) =>
     \A k \in DOMAIN frames :
        frames[k].kind = "foreach" => frames[k].var \in DOMAIN element_references

\* C11: a row saved by save_row is an object of its own, which neither
\* current_row nor a snapshot nor another saved row is, and no step changes a
\* saved row: rows only grows at its end, whatever the later statements write
\* and whichever loops are entered or left.
C11_SavedRowsIndependent ==
  /\ [](\A k \in DOMAIN rows :
          /\ ids.rows[k] # ids.current_row
          /\ \A j \in DOMAIN row_state_stack : ids.rows[k] # ids.row_state_stack[j]
          /\ \A j \in DOMAIN rows : j # k => ids.rows[j] # ids.rows[k])
  /\ [][Len(rows') >= Len(rows) /\ \A k \in DOMAIN rows : rows'[k] = rows[k]]_vars

C11_Witness ==
  /\ Len(rows) = 2
  /\ <<"c">> \in DOMAIN rows[1] /\ rows[1][<<"c">>].kind = "list"
  /\ <<"d">> \in DOMAIN rows[1] /\ rows[1][<<"d">>] = StrV(<<"l">>)
  /\ row_state_stack = <<>>
  /\ last.type = "SET_FIELD" /\ current_row = (<<"c">> :> StrV(<<"x">>))

\* the row held when the innermost loop in progress was entered
RowAtLoopEntry ==
  frames[CHOOSE k \in DOMAIN frames :
           /\ frames[k].kind \in {"foreach", "while"}
           /\ \A j \in DOMAIN frames : j > k => frames[j].kind \notin {"foreach", "while"}].row

\* C12: save_row appends a copy of current_row to rows, then makes
\* current_row a copy of the row held at entry to the innermost loop in
\* progress, which is what the top of row_state_stack holds, or the empty row
\* outside loops; row_state_stack is left as it was.
C12_SaveRowRestoresSnapshot ==
  [][AtStmt("SAVE_ROW") =>
       /\ rows' = Append(rows, current_row)
       /\ ids'.rows[Len(rows')] \notin Objects
       /\ current_row' = IF LoopDepth > 0 THEN RowAtLoopEntry ELSE EmptyDict
       /\ LoopDepth > 0 => row_state_stack[Len(row_state_stack)] = RowAtLoopEntry
       /\ ids'.current_row \notin Objects \cup {ids'.rows[Len(rows')]}
       /\ row_state_stack' = row_state_stack
       /\ ids'.row_state_stack = ids.row_state_stack
    ]_vars

C12_Witness ==
  /\ last.type = "SAVE_ROW" /\ LoopDepth = 1
  /\ Len(rows) = 2 /\ <<"d">> \in DOMAIN rows[2] /\ rows[2][<<"d">>] = StrV(<<"x">>)
  /\ current_row = (<<"d">> :> StrV(<<"l">>))
  /\ row_state_stack = <<current_row>>

\* the element the first selector of the statement resolves to, tried alone
FirstAlone == Resolved(Created(Substituted(<<node.selectors[1]>>)), Page)

\* C13: when the first selector of an extract with a selector list yields an
\* element, the statement extracts from it, queries the browser for that
\* selector only and continues, whatever the later selectors of the list are.
C13_LaterSelectorsNotConsulted ==
  [][(AtStmt("EXTRACT") /\ Len(node.selectors) > 1 /\ FirstAlone.ok /\ FirstAlone.els # <<>>) =>
       /\ ctl' = "run"
       /\ last'.branch = "extracted"
       /\ queried' = FirstAlone.log
    ]_vars

\* the left operand of the condition of the if statement about to execute
LeftOperand == evaluate_condition(node.condition.left, Env)

\* C14: an `and` whose left operand is false and an `or` whose left operand
\* is true are decided by the left operand: the browser is queried for the
\* left operand only and nothing the right operand would raise is raised.
C14_ShortCircuit ==
  [][(AtStmt("IF") /\ node.condition.type \in {"CONDITION_AND", "CONDITION_OR"}) =>
       /\ (node.condition.type = "CONDITION_AND" /\ LeftOperand.res = "false") =>
            /\ ctl' = "run" /\ exc' = exc
            /\ last'.branch \in {"false_branch", "no_branch", "else_if_branch"}
            /\ node.else_if_branches = <<>> => queried' = LeftOperand.log
       /\ (node.condition.type = "CONDITION_OR" /\ LeftOperand.res = "true") =>
            /\ ctl' = "run" /\ exc' = exc
            /\ last'.branch = "true_branch"
            /\ queried' = LeftOperand.log
    ]_vars

\* both statements of ScriptLogic were decided by their left operands
C14_Witness ==
  /\ ast = ScriptLogic /\ last.type = "SAVE_ROW"
  /\ rows = <<(<<"c">> :> StrV(<<"l">>)) @@ (<<"d">> :> StrV(<<"x">>))>>

\* the loop test of a while loop whose body has run max_iterations times
\* finds the condition still true
WhileAtLimit ==
  /\ phase = "executing" /\ ctl = "run" /\ frames # <<>>
  /\ Top.kind = "while" /\ Top.pc > Len(Top.stmts)
  /\ Top.iteration = max_iterations
  /\ evaluate_condition(Top.condition, Env).res = "true"

\* C15: the body of a while loop runs at most 1000 times; when the
\* condition is still true after the 1000th run the loop ends without
\* raising, its row snapshot is popped and the statement after end_while is
\* the next to execute.
C15_WhileLimit ==
  /\ [](\A k \in DOMAIN frames :
          frames[k].kind = "while" => frames[k].iteration <= max_iterations)
  /\ [][WhileAtLimit =>
          /\ ctl' = "run" /\ exc' = exc
          /\ frames' = [SubSeq(frames, 1, Len(frames) - 1) EXCEPT
                          ![Len(frames) - 1].pc = @ + 1]
          /\ row_state_stack' = SubSeq(row_state_stack, 1, Len(row_state_stack) - 1)
          /\ Len(row_state_stack') = Top.stack
       ]_vars

\* the statements after the loop of ScriptLimit have run
C15_Witness ==
  /\ ast = ScriptLimit /\ last.type = "SAVE_ROW" /\ executed > max_iterations
  /\ rows = <<(<<"c">> :> StrV(<<"x">>)) @@ (<<"d">> :> StrV(<<"l">>))>>

\* the foreach about to execute matches no element
ForeachOverNothing ==
  /\ AtStmt("FOREACH")
  /\ Created(node.selectors).ok
  /\ ResolvedAll(Created(node.selectors), Page, TRUE).els = <<>>

\* C16: a foreach that matches no element runs no statement of its body,
\* leaves row_state_stack and foreach_indexes as they were, leaves no
\* binding for its variable in element_references, and the statement after
\* it is the next to execute.
C16_ForeachOverNothing ==
  [][ForeachOverNothing =>
       /\ Continued
       /\ row_state_stack' = row_state_stack
       /\ foreach_indexes' = foreach_indexes
       /\ node.element_var_name \notin DOMAIN element_references'
    ]_vars

\* the extract about to execute finds no element with any of its selectors
ExtractOfNothing ==
  /\ AtStmt("EXTRACT")
  /\ Created(Substituted(node.selectors)).ok
  /\ Resolved(Created(Substituted(node.selectors)), Page).ok
  /\ Resolved(Created(Substituted(node.selectors)), Page).els = <<>>

\* the extract_list about to execute finds no element with any of its selectors
ExtractListOfNothing ==
  /\ AtStmt("EXTRACT_LIST")
  /\ Created(node.selectors).ok
  /\ ResolvedAll(Created(node.selectors), Page, FALSE).ok
  /\ ResolvedAll(Created(node.selectors), Page, FALSE).els = <<>>

\* C17: an extract that finds no element stores None under its column and
\* an extract_list that finds none stores the empty list; the column is a
\* key of current_row afterwards, nothing is raised and the next statement
\* is the next to execute.
C17_NothingFoundIsStored ==
  [][ /\ ExtractOfNothing =>
           /\ Continued /\ exc' = exc
           /\ node.column_name \in DOMAIN current_row'
           /\ current_row' = Put(current_row, node.column_name, None)
      /\ ExtractListOfNothing =>
           /\ Continued /\ exc' = exc
           /\ node.column_name \in DOMAIN current_row'
           /\ current_row' = Put(current_row, node.column_name, ListV(<<>>))
    ]_vars

C17_Witness ==
  /\ last.type = "EXTRACT_LIST" /\ last.branch = "no_element" /\ ctl = "run"
  /\ current_row = (<<"c">> :> None) @@ (<<"t">> :> ListV(<<>>))

\* the value of the i-th else_if condition of the if statement about to execute
ElseIfValue(i) == evaluate_condition(node.else_if_branches[i][1], Env)

\* the else_if branches whose condition holds and whose predecessors' do not
FirstTrue ==
  {i \in DOMAIN node.else_if_branches :
     /\ ElseIfValue(i).res = "true"
     /\ \A j \in 1..(i - 1) : ElseIfValue(j).res = "false"}

\* the queries of the else_if conditions 1..i, in order
RECURSIVE ElseIfQueries(_)
ElseIfQueries(i) == IF i = 0 THEN <<>> ELSE ElseIfQueries(i - 1) \o ElseIfValue(i).log

\* the statements of stmts, and only these, are run next
RunsOnly(stmts) ==
  IF stmts = <<>> THEN Continued
  ELSE /\ frames' = Append(frames, Frame("if", stmts))
       /\ ctl' = "run"

\* C18: an if statement runs the statements of one branch at most: the
\* true branch when its condition holds, else the body of the first else_if
\* whose condition holds, else the else branch if there is one; the
\* conditions of the else_if branches after the first true one are not
\* evaluated. When the branch has run, the statement after the if is next.
C18_OneBranch ==
  [][ /\ (AtStmt("IF") /\ evaluate_condition(node.condition, Env).res = "true") =>
           /\ RunsOnly(node.true_branch)
           /\ queried' = evaluate_condition(node.condition, Env).log
      /\ (AtStmt("IF") /\ evaluate_condition(node.condition, Env).res = "false") =>
           /\ \A i \in FirstTrue :
                /\ RunsOnly(node.else_if_branches[i][2])
                /\ queried' = evaluate_condition(node.condition, Env).log \o ElseIfQueries(i)
           /\ (\A i \in DOMAIN node.else_if_branches : ElseIfValue(i).res = "false") =>
                RunsOnly(node.false_branch)
      /\ (phase = "executing" /\ ctl = "run" /\ frames # <<>> /\ Top.kind = "if"
            /\ Top.pc > Len(Top.stmts)) =>
           frames' = [SubSeq(frames, 1, Len(frames) - 1) EXCEPT ![Len(frames) - 1].pc = @ + 1]
    ]_vars

\* the second else_if of ScriptElseIf was taken and the third not evaluated
C18_Witness ==
  /\ ast = ScriptElseIf /\ last.type = "SAVE_ROW"
  /\ rows = <<(<<"c">> :> StrV(<<"a">>))>>

\* the body of the innermost foreach has run to its end
ForeachBodyEnds ==
  /\ phase = "executing" /\ ctl = "run" /\ frames # <<>>
  /\ Top.kind = "foreach" /\ Top.pc > Len(Top.stmts)

\* C19: rows grows only by save_row, which puts the row at the end, so rows
\* are in the order their save_row executed. A foreach over N elements starts
\* at index 0, the end of the body run with index i is followed by the run
\* with index i + 1, and the loop ends after the run with index N - 1; the
\* row saved in a run of the body is in rows before the next run starts.
\* ScriptRows on the page with two list items yields their rows in document
\* order.
C19_RowsInExecutionOrder ==
  /\ [][IF AtStmt("SAVE_ROW")
        THEN rows' = rows \o <<current_row>> /\ last'.type = "SAVE_ROW"
        ELSE rows' = rows]_vars
  /\ [](\A k \in DOMAIN frames :
          frames[k].kind = "foreach" =>
            /\ 0 <= frames[k].i /\ frames[k].i < frames[k].n
            /\ (/\ frames[k].var \in DOMAIN foreach_indexes
                /\ \A j \in DOMAIN frames :
                     (j > k /\ frames[j].kind = "foreach") => frames[j].var # frames[k].var)
               => foreach_indexes[frames[k].var] = frames[k].i)
  /\ [][(AtStmt("FOREACH") /\ Len(frames') > Len(frames)) =>
          /\ frames'[Len(frames')].i = 0 /\ frames'[Len(frames')].pc = 1
          /\ frames'[Len(frames')].n = Len(ResolvedAll(Created(node.selectors), Page, TRUE).els)
          /\ foreach_indexes'[node.element_var_name] = 0
       ]_vars
  /\ [][ForeachBodyEnds =>
          /\ rows' = rows
          /\ IF Top.i < Top.n - 1
             THEN /\ frames' = [frames EXCEPT ![Len(frames)].i = Top.i + 1,
                                              ![Len(frames)].pc = 1]
                  /\ foreach_indexes'[Top.var] = Top.i + 1
             ELSE Len(frames') = Len(frames) - 1
       ]_vars
  /\ []((/\ ast = ScriptRows /\ phase = "done" /\ ~data_file /\ exc = NoExc
          /\ Page.has /\ Page.dom = PageList)
         => rows = <<(<<"d">> :> StrV(<<"l">>)) @@ (<<"c">> :> StrV(<<"X">>)),
                     (<<"d">> :> StrV(<<"l">>)) @@ (<<"c">> :> StrV(<<"Y">>))>>)

\* the row of the first list item is saved and the body runs with index 1
C19_Witness ==
  /\ ast = ScriptRows /\ AtStmt("SAVE_ROW")
  /\ Top.kind = "foreach" /\ Top.i = 1 /\ Top.n = 2
  /\ foreach_indexes = (<<"@", "v">> :> 1)
  /\ rows = <<(<<"d">> :> StrV(<<"l">>)) @@ (<<"c">> :> StrV(<<"X">>))>>
  /\ current_row = (<<"d">> :> StrV(<<"l">>)) @@ (<<"c">> :> StrV(<<"Y">>))

\* the selector string starts with an @name that element_references lacks
Unbound(selector_str) ==
  /\ Len(selector_str) > 0 /\ selector_str[1] = "@"
  /\ \A n \in DOMAIN element_references :
       /\ n # selector_str
       /\ \A k \in 1..Len(selector_str) :
            (selector_str[k] = " " /\ \A j \in 1..(k - 1) : selector_str[j] # " ")
              => n # SubSeq(selector_str, 1, k - 1)

\* a statement with a selector list is about to execute and one of its
\* selectors names an unbound reference
UsesUnbound ==
  /\ phase = "executing" /\ ctl = "run" /\ frames # <<>> /\ Top.pc <= Len(Top.stmts)
  /\ node.type \in {"GOTO_HREF", "EXTRACT", "EXTRACT_LIST", "EXTRACT_ATTRIBUTE",
                    "EXTRACT_ATTRIBUTE_LIST", "CLICK", "FOREACH", "SELECT"}
  /\ \E i \in DOMAIN node.selectors : Unbound(node.selectors[i])

\* C20: a statement one of whose selectors names an @name that
\* element_references does not bind raises ValueError: current_row, rows and
\* the reference maps are as before and the browser is not queried. From
\* then on no statement executes and no row is saved; execute() reports the
\* error and, having a browser, has called cleanup once when it is over.
C20_UnknownReferenceIsFatal ==
  /\ [][UsesUnbound =>
          /\ ctl' = "raise" /\ exc'.kind = "ValueError"
          /\ current_row' = current_row /\ rows' = rows
          /\ row_state_stack' = row_state_stack
          /\ element_references' = element_references
          /\ queried' = <<>> /\ driver_calls' = driver_calls
       ]_vars
  /\ [][ctl = "raise" =>
          /\ ctl' = "raise"
          /\ executed' = executed
          /\ current_row' = current_row /\ rows' = rows
          /\ driver_calls' = driver_calls
       ]_vars
  /\ []((phase = "done" /\ ctl = "raise") =>
          /\ Len(reported) = 1
          /\ cleanups = IF browser_automation THEN 1 ELSE 0
          /\ result = [status |-> "returned", rows |-> rows])

\* the foreach of ScriptUnbound raised and execute() is over
C20_Witness ==
  /\ ast = ScriptUnbound /\ phase = "done" /\ cleanups = 1
  /\ last.type = "FOREACH" /\ last.branch = "raised"
  /\ reported = <<[kind |-> "ValueError", message |-> <<>>]>>
  /\ rows = <<(<<"d">> :> StrV(<<"l">>))>>
  /\ current_row = (<<"c">> :> StrV(<<"x">>))

\* ------------------------------------------------------------- C28
\* the statements whose selectors the data feed is said to reach
FeedStatements == {"EXTRACT", "EXTRACT_LIST", "EXTRACT_ATTRIBUTE", "EXTRACT_ATTRIBUTE_LIST",
                   "CLICK"}

\* a statement of one of these types is about to run while a data row is
\* loaded and one of its selectors names a declared variable
FeedReaches(types) ==
  /\ phase = "executing" /\ ctl = "run" /\ frames # <<>> /\ Top.pc <= Len(Top.stmts)
  /\ node.type \in types
  /\ \E i \in 1..Len(node.selectors) :
       /\ node.selectors[i] \in DOMAIN data_schema
       /\ data_schema[node.selectors[i]] \in DOMAIN current_data_row

\* the queries the statement sends when its selectors are substituted first
SubstitutedQueries ==
  IF node.type \in {"EXTRACT_LIST", "EXTRACT_ATTRIBUTE_LIST"}
  THEN ResolvedAll(Created(Substituted(node.selectors)), Page, FALSE).log
  ELSE Resolved(Created(Substituted(node.selectors)), Page).log

\* C28: with a data feed, every extract statement and click queries the page
\* for its selectors with each $name replaced by the current data row's value
C28_FeedReachesSelectors ==
  [][FeedReaches(FeedStatements) => queried' = SubstitutedQueries]_vars

\* ------------------------------------------------------------- C29
\* texts over a declared variable's characters, longest first
TextChars == {DOLLAR, "k", "a"}

Texts == UNION {[1..n -> TextChars] : n \in 0..MaxTextLen}

\* substitute_variables on the interpreter's schema and data row
Substitute(text) == substitute_variables(text, data_schema, current_data_row)

\* C29: without a data file substitute_variables returns every text unchanged,
\* texts with $name tokens included, and applying it twice equals applying it once
C29_NoFeedNoSubstitution ==
  ~data_file =>
    \A text \in Texts : Substitute(text) = text /\ Substitute(Substitute(text)) = Substitute(text)

\* a statement naming a declared variable is about to run without a data file
C29_Witness ==
  /\ ~data_file
  /\ AtStmt("GOTO_URL")
  /\ node.url \in DOMAIN data_schema
  /\ node.url \in Texts

\* ------------------------------------------------------------- C30
\* C30: a call of cleanup() leaves no tab and no browser resource held, and
\* a call after the first one changes nothing
C30_CleanupIdempotent ==
  [][cleanups' = cleanups + 1 =>
       /\ tabs' = <<>> /\ current_tab_index' = 0 - 1 /\ ~resources'
       /\ cleanups > 0 /\ ~resources => UNCHANGED <<tabs, current_tab_index, resources>>]_vars

\* ------------------------------------------------------------- C21
\* execute() was not entered: no browser, no statement, no driver call
NothingRan ==
  /\ phase = "idle" /\ ~browser_automation /\ ~resources
  /\ executed = 0 /\ driver_calls = 0 /\ frames = <<>>

\* C21: when tokenize or parse raised a SyntaxError, the error cites a line of
\* the script (line 1 for extract 'a'), the browser was never launched and no
\* statement ran
C21_SyntaxErrorBeforeExecution ==
  (stage = "failed" /\ error.kind = "SyntaxError") => (error.line >= 1 /\ NothingRan)

\* ------------------------------------------------------------- C22
\* end of input inside a block: its terminating keyword is missing
Unterminated ==
  /\ stage = "parsing" /\ parser.blocks # <<>>
  /\ current_token(tokens, parser.pos).type = "EOF"

\* C22: every iteration of a parser loop consumes a token or ends the parse,
\* so parse() terminates; at end of input inside an if, foreach or while
\* block it ends by raising SyntaxError
C22_ParseTerminates ==
  [][stage = "parsing" =>
       /\ parser'.pos > parser.pos \/ stage' # "parsing"
       /\ Unterminated => stage' = "failed" /\ error'.kind = "SyntaxError"]_vars

\* ------------------------------------------------------------- C23
\* C23: a statement whose head token no branch of parse_statement takes, and
\* a condition atom that is neither (, not nor exists, make the parser raise
\* SyntaxError: no other kind of error leaves the lexer or the parser
C23_OnlySyntaxErrors == stage = "failed" => error.kind = "SyntaxError"

\* ------------------------------------------------------------- C24
\* the command at the head of the statement parse_statement is about to parse
NextCommand(pos) == parse_command(tokens, pos, Commands(current_token(tokens, pos).value))

\* a complete command is followed on its line by another token
SameLine(pos) ==
  /\ current_token(tokens, pos).type = "IDENTIFIER"
  /\ NextCommand(pos).ok
  /\ current_token(tokens, NextCommand(pos).pos).type \notin {"NEWLINE", "EOF"}

\* C24: a statement that starts on the line of a completed simple statement is
\* rejected with SyntaxError, and a script whose statements are each followed
\* by a newline is not rejected
C24_OneStatementPerLine ==
  [][/\ InLoop /\ SameLine(skip_newlines(tokens, parser.pos)) =>
          stage' = "failed" /\ error'.kind = "SyntaxError"
     /\ script_text \in ScriptTexts => stage' # "failed"]_vars

\* set_field 'c' 'x' save_row was rejected at save_row
C24_Witness ==
  /\ stage = "failed" /\ error.what = "Expected newline after statement"
  /\ tokens[error.start + 1].type = "IDENTIFIER"
  /\ Commands(tokens[error.start + 1].value).type = "SAVE_ROW"
  /\ Commands(tokens[1].value).type = "SET_FIELD"

\* ------------------------------------------------------------- C25
\* the selectors after the foreach or select keyword at pos
SelectorsAfter(pos) == parse_selector_list(tokens, pos + 1)

\* the statement at pos is a foreach or select whose selectors are followed
\* by 'as' and an identifier that does not begin with @
PlainVariable(pos) ==
  /\ current_token(tokens, pos).type \in {"FOREACH", "SELECT"}
  /\ SelectorsAfter(pos).ok
  /\ current_token(tokens, SelectorsAfter(pos).pos).type = "AS"
  /\ current_token(tokens, SelectorsAfter(pos).pos + 1).type = "IDENTIFIER"
  /\ ~startswith(current_token(tokens, SelectorsAfter(pos).pos + 1).value, AT)

\* C25: foreach and select reject with SyntaxError an element variable whose
\* name does not begin with @, so every key of element_references and of
\* foreach_indexes begins with @
C25_ElementVariablesStartWithAt ==
  [][/\ InLoop /\ PlainVariable(skip_newlines(tokens, parser.pos)) =>
          stage' = "failed" /\ error'.kind = "SyntaxError"
     /\ \A name \in (DOMAIN element_references') \cup (DOMAIN foreach_indexes') :
          startswith(name, AT)]_vars

\* goto_url 'u' / foreach 'l' as v: rejected at v
C25_Witness ==
  /\ stage = "failed" /\ error.what = "Element variable name must start with @"
  /\ tokens[error.start + 1].value = <<"v">>
  /\ \E i \in 1..Len(tokens) : tokens[i].type = "FOREACH"

\* ------------------------------------------------------------- C26
\* the atoms exists 'a', exists 'b', exists 'c'
AtomA == Exists(<< <<"a">> >>)
AtomB == Exists(<< <<"b">> >>)
AtomC == Exists(<< <<"c">> >>)

\* conditions, as picks of ConditionPhrases, and the trees they stand for:
\* A or B and C; A and B or C; A and B and C; A or B or C; not A and B;
\* not A or B; not not A; ( A or B ) and C; not ( A or B ); A and not B
Precedence ==
  << << <<1, 5, 2, 4, 3>>, Or(AtomA, And(AtomB, AtomC)) >>,
     << <<1, 4, 2, 5, 3>>, Or(And(AtomA, AtomB), AtomC) >>,
     << <<1, 4, 2, 4, 3>>, And(And(AtomA, AtomB), AtomC) >>,
     << <<1, 5, 2, 5, 3>>, Or(Or(AtomA, AtomB), AtomC) >>,
     << <<6, 1, 4, 2>>, And(Not(AtomA), AtomB) >>,
     << <<6, 1, 5, 2>>, Or(Not(AtomA), AtomB) >>,
     << <<6, 6, 1>>, Not(Not(AtomA)) >>,
     << <<7, 1, 5, 2, 8, 4, 3>>, And(Or(AtomA, AtomB), AtomC) >>,
     << <<6, 7, 1, 5, 2, 8>>, Not(Or(AtomA, AtomB)) >>,
     << <<1, 4, 6, 2>>, And(AtomA, Not(AtomB)) >> >>

\* C26: or binds loosest, then and, then not, then the atoms; and, or group
\* to the left, not to the right, and parentheses override: each of the
\* conditions above is accepted and parses to the tree beside it
C26_ConditionPrecedence ==
  \A i \in 1..Len(Precedence) :
    script_text = ConditionScript(Precedence[i][1]) =>
      /\ stage # "failed"
      /\ stage = "parsed" => ast[1].condition = Precedence[i][2]

\* if exists 'a' or exists 'b' and exists 'c' has been parsed
C26_Witness ==
  /\ stage = "parsed"
  /\ script_text = ConditionScript(<<1, 5, 2, 4, 3>>)
  /\ ast[1].condition.type = "CONDITION_OR"

\* ------------------------------------------------------------- C27
\* the line and the column of the character after the first offset
\* characters of a text
LineOf(text, offset) == 1 + Cardinality({i \in 1..offset : text[i] = NL})

ColumnOf(text, offset) ==
  offset + 1 - (IF \E i \in 1..offset : text[i] = NL
                THEN CHOOSE i \in 1..offset :
                       text[i] = NL /\ \A j \in (i + 1)..offset : text[j] # NL
                ELSE 0)

\* C27: the SyntaxError of an unterminated string reports the line and the
\* column of its opening quote, also when the text after the quote has newlines
C27_UnterminatedAtOpeningQuote ==
  (stage = "failed" /\ error.what = "Unterminated string") =>
    /\ error.kind = "SyntaxError"
    /\ error.line = LineOf(script_text, error.start)
    /\ error.column = ColumnOf(script_text, error.start)

\* ------------------------------------------------------------- C31
\* the i-th selector of the select statement, taken alone, resolves to an
\* element of the current page
SelectResolves(i) ==
  /\ create_selector(node.selectors[i], element_references, foreach_indexes).ok
  /\ resolve_selector(create_selector(node.selectors[i], element_references,
                                      foreach_indexes).sel, Page).ok
  /\ resolve_selector(create_selector(node.selectors[i], element_references,
                                      foreach_indexes).sel, Page).els # <<>>

\* the position of the first selector that does, or 0
FirstSelected ==
  IF \E i \in 1..Len(node.selectors) : SelectResolves(i)
  THEN CHOOSE i \in 1..Len(node.selectors) :
         SelectResolves(i) /\ \A j \in 1..(i - 1) : ~SelectResolves(j)
  ELSE 0

\* C31: a select that does not raise binds its name to the raw text of the
\* first selector of its list that resolves to an element, leaves
\* element_references unchanged when none resolves, and execution continues
C31_SelectBindsFirstResolving ==
  [][(AtStmt("SELECT") /\ executed' # executed /\ ctl' # "raise") =>
       /\ Continued
       /\ element_references' =
            IF FirstSelected > 0
            THEN Put(element_references, node.element_var_name, node.selectors[FirstSelected])
            ELSE element_references]_vars

\* a select bound its name to the second selector of its list
C31_Witness ==
  /\ last.type = "SELECT" /\ last.branch = "selected"
  /\ ast = ScriptSelectList
  /\ <<"@", "w">> \in DOMAIN element_references
  /\ element_references[<<"@", "w">>] = <<"l", " ", "a">>

\* ------------------------------------------------------------- C32
\* the foreach statement whose body the innermost call runs
Loop == frames[Len(frames) - 1].stmts[frames[Len(frames) - 1].pc]

\* a statement of the body of a foreach over one page-level selector is about
\* to execute, and the loop's variable is bound
InPageLoop ==
  /\ phase = "executing" /\ ctl = "run" /\ Len(frames) >= 2
  /\ Top.kind = "foreach" /\ Top.pc <= Len(Top.stmts)
  /\ Len(Loop.selectors) = 1 /\ ~startswith(Loop.selectors[1], AT)
  /\ Top.var \in DOMAIN element_references

\* the elements of the current page the loop's selector matches, in document
\* order
LoopElements ==
  InOrder({n \in NodesOf(Page.dom) : MatchesCss(Page.dom, n, CssTokens(Loop.selectors[1]))})

\* the descendants of an element with a tag, in document order
Within(el, tag) ==
  InOrder({n \in NodesOf(Page.dom) : el \in Ancestors(Page.dom, n) /\ Page.dom.tag[n] = tag})

\* the first of them as a list of at most one element
FirstWithin(el, tag) == IF Within(el, tag) = <<>> THEN <<>> ELSE <<Within(el, tag)[1]>>

Tags == {"a", "b", "l", "u"}

\* what a selector text resolves to now
Resolution(selector_str) ==
  resolve_selector(create_selector(selector_str, element_references, foreach_indexes).sel, Page)

\* the row a body of extract 'c' '@v a' and save_row saves for the i-th element
RowAt(i) ==
  Put(Put(EmptyDict, <<"d">>, StrV(<<"l">>)), <<"c">>,
      IF Within(LoopElements[i], "a") = <<>> THEN None
      ELSE StrV(strip(Page.dom.text[Within(LoopElements[i], "a")[1]])))

\* C32: in iteration i of a foreach over a page-level selector, '@v' resolves
\* to the i-th element the selector matches and '@v rest' to the first element
\* matching rest in that element's subtree; the loop of extract 'c' '@v a' and
\* save_row saves one row per element, holding the text below that element
\* and the fields written before the loop
C32_LoopVariableIsTheElement ==
  /\ [](InPageLoop /\ Top.i < Len(LoopElements) =>
          /\ Resolution(Top.var).ok
          /\ Resolution(Top.var).els = <<LoopElements[Top.i + 1]>>
          /\ \A tag \in Tags :
               /\ Resolution(Top.var \o <<SP, tag>>).ok
               /\ Resolution(Top.var \o <<SP, tag>>).els =
                    FirstWithin(LoopElements[Top.i + 1], tag))
  /\ [][(ast = ScriptRows /\ AtStmt("SAVE_ROW") /\ executed' # executed) =>
          rows' = Append(rows, RowAt(Top.i + 1))]_vars
  /\ [][(ast = ScriptRows /\ ~data_file /\ LoopEnds /\ ctl = "run") =>
          rows' = [i \in 1..Len(LoopElements) |-> RowAt(i)]]_vars

\* the loop saved a row for the second list item of the page
C32_Witness ==
  /\ ast = ScriptRows /\ last.type = "SAVE_ROW" /\ Len(rows) = 2
  /\ rows[1] = Put(Put(EmptyDict, <<"d">>, StrV(<<"l">>)), <<"c">>, StrV(<<"X">>))
  /\ rows[2] = Put(Put(EmptyDict, <<"d">>, StrV(<<"l">>)), <<"c">>, StrV(<<"Y">>))

\* ------------------------------------------------------------- C33
\* the call of the foreach around the innermost loop, and its statement
OuterCall == frames[Len(frames) - 1]

OuterLoop == frames[Len(frames) - 2].stmts[frames[Len(frames) - 2].pc]

\* a statement of the body of a foreach over '@outer tag' is about to execute,
\* @outer being the variable of the foreach directly around it, which is over
\* one page-level selector
InInnerLoop ==
  /\ phase = "executing" /\ ctl = "run" /\ Len(frames) >= 3
  /\ Top.kind = "foreach" /\ Top.pc <= Len(Top.stmts)
  /\ OuterCall.kind = "foreach" /\ Top.var # OuterCall.var
  /\ Len(Loop.selectors) = 1
  /\ Len(Loop.selectors[1]) = Len(OuterCall.var) + 2
  /\ SubSeq(Loop.selectors[1], 1, Len(OuterCall.var) + 1) = OuterCall.var \o <<SP>>
  /\ Len(OuterLoop.selectors) = 1 /\ ~startswith(OuterLoop.selectors[1], AT)
  /\ Top.var \in DOMAIN element_references /\ OuterCall.var \in DOMAIN element_references

\* the elements the outer loop's selector matches on the current page
OuterElements ==
  InOrder({n \in NodesOf(Page.dom) :
             MatchesCss(Page.dom, n, CssTokens(OuterLoop.selectors[1]))})

\* the list the inner loop iterates: the elements with its tag below the
\* current element of the outer loop
Iterated == Within(OuterElements[OuterCall.i + 1], Loop.selectors[1][Len(Loop.selectors[1])])

\* C33: in iteration j of a foreach over '@outer css' nested in the foreach of
\* @outer, the inner variable resolves to the j-th match of css inside the
\* current outer element, not to the j-th match of css on the page
C33_InnerVariableIsInOuterElement ==
  (InInnerLoop /\ OuterCall.i < Len(OuterElements) /\ Top.i < Len(Iterated)) =>
    /\ Resolution(Top.var).ok
    /\ Resolution(Top.var).els = <<Iterated[Top.i + 1]>>

\* ------------------------------------------------------------- C34
\* the elements the one page-level selector of the foreach about to execute
\* matches
EnteredElements ==
  InOrder({n \in NodesOf(Page.dom) : MatchesCss(Page.dom, n, CssTokens(node.selectors[1]))})

\* the body of the innermost foreach has run to its end
BodyDone ==
  /\ phase = "executing" /\ ctl = "run" /\ frames # <<>>
  /\ Top.kind = "foreach" /\ Top.pc > Len(Top.stmts)

\* the page has no element for the iteration the loop is in
Outrun == InPageLoop /\ Top.i >= Len(LoopElements)

\* C34: a foreach runs its body once per element matched when it was entered,
\* whatever its body does to the page; a use of the loop variable queries the
\* current page with the iteration index, and when that page has fewer
\* matches the selector resolves to no element and extract stores None
\* instead of raising
C34_IterationsFixedAtEntry ==
  /\ [][(AtStmt("FOREACH") /\ Len(node.selectors) = 1 /\ ~startswith(node.selectors[1], AT)
          /\ executed' # executed) =>
          IF EnteredElements = <<>> THEN Continued
          ELSE /\ Len(frames') = Len(frames) + 1
               /\ frames'[Len(frames')].n = Len(EnteredElements)
               /\ frames'[Len(frames')].i = 0 /\ frames'[Len(frames')].pc = 1]_vars
  /\ [][(BodyDone /\ frames' # frames) =>
          IF Top.i + 1 < Top.n
          THEN /\ frames' = [frames EXCEPT ![Len(frames)].i = @ + 1, ![Len(frames)].pc = 1]
               /\ foreach_indexes' = Put(foreach_indexes, Top.var, Top.i + 1)
          ELSE Len(frames') = Len(frames) - 1]_vars
  /\ [][(ast = ScriptChange /\ ~data_file /\ BodyDone /\ Len(frames') < Len(frames)) =>
          Len(rows) = Top.n]_vars
  /\ [](Outrun =>
          /\ Resolution(Top.var).ok /\ Resolution(Top.var).els = <<>>
          /\ Resolution(Top.var).log = <<[scope |-> "page", css |-> Loop.selectors[1]]>>
          /\ \A tag \in Tags :
               /\ Resolution(Top.var \o <<SP, tag>>).ok
               /\ Resolution(Top.var \o <<SP, tag>>).els = <<>>)
  /\ [][(Outrun /\ AtStmt("EXTRACT") /\ executed' # executed) =>
          /\ Continued
          /\ queried' = <<[scope |-> "page", css |-> Loop.selectors[1]]>>
          /\ current_row' = Put(current_row, node.column_name, None)]_vars

\* the second iteration ran on a page without list items: extract stored None
C34_Witness ==
  /\ ast = ScriptChange /\ last.type = "EXTRACT" /\ last.branch = "no_element"
  /\ frames # <<>> /\ Top.kind = "foreach" /\ Top.i = 1 /\ Top.n = 2
  /\ Len(rows) = 1 /\ current_row[<<"c">>] = None
  /\ LoopElements = <<>>

\* ------------------------------------------------------------- C35
\* C35: the step that leaves a foreach or while loop changes neither
\* current_row nor rows and drops the loop's snapshot from row_state_stack, so
\* fields the body wrote after its last save_row are still in current_row
\* after the loop
C35_LoopExitKeepsRow ==
  [][LoopEnds =>
       /\ current_row' = current_row /\ rows' = rows
       /\ ids'.current_row = ids.current_row /\ ids'.rows = ids.rows
       /\ row_state_stack' = SubSeq(row_state_stack, 1, Len(row_state_stack) - 1)]_vars

\* after the loop of ScriptSaved, whose body writes d after save_row, d is
\* still in current_row and differs from the snapshot taken at loop entry
C35_Witness ==
  /\ ast = ScriptSaved /\ AtStmt("EXTRACT_LIST") /\ Len(frames) = 1
  /\ row_state_stack = <<>> /\ rows # <<>>
  /\ <<"d">> \in DOMAIN current_row /\ current_row[<<"d">>] = StrV(<<"x">>)

BetweenRuns == phase = "executing" /\ frames = <<>>

\* C37: with a data feed, execute() runs the program once per data row in feed
\* order; each run starts with current_row, element_references,
\* foreach_indexes and row_state_stack empty and with the rows saved so far;
\* after a run that ended by exit the run of the next data row starts, after a
\* run that raised none does
C37_OneRunPerDataRow ==
  /\ [][(data_file /\ BetweenRuns /\ frames' # <<>>) =>
          /\ todo > 0 /\ todo' = todo - 1
          /\ current_data_row' = feed[Len(feed) - todo + 1]
          /\ frames' = <<Frame("program", ast)>>
          /\ current_row' = EmptyDict /\ element_references' = EmptyDict
          /\ foreach_indexes' = EmptyDict /\ row_state_stack' = <<>>
          /\ rows' = rows]_vars
  /\ [][(data_file /\ BetweenRuns /\ ctl # "raise" /\ todo > 0) => (frames' # <<>>)]_vars
  /\ [][(BetweenRuns /\ ctl = "raise") => (frames' = <<>> /\ todo' = todo)]_vars
  /\ [][(phase \in {"terminating", "done"}) => (frames' = <<>> /\ todo' = todo)]_vars
  /\ []((data_file /\ phase = "done" /\ reported = <<>>) => todo = 0)

\* the run of the first data row ended by exit after it saved a row, and the
\* run of the second data row has started
C37_Witness ==
  /\ data_file /\ Len(feed) = 2 /\ todo = 0
  /\ phase = "executing" /\ frames # <<>> /\ Top.pc = 1
  /\ last.type = "EXIT" /\ last.run = 1
  /\ current_data_row = feed[2]
  /\ rows # <<>> /\ current_row = EmptyDict

\* ------------------------------------------------------------- C38
\* the ids of the steps a search from next_step_id up to the limit can find
Existing(steps, next_step_id) ==
  {id \in DOMAIN steps : id >= next_step_id /\ id <= step_id_limit}

\* a search for the next step that passes over the ids without a step
NextExisting(steps, next_step_id) ==
  IF Existing(steps, next_step_id) = {}
  THEN [error |-> "No next step found", current_step |-> 0]
  ELSE [error |-> "none",
        current_step |-> CHOOSE id \in Existing(steps, next_step_id) :
                           \A other \in Existing(steps, next_step_id) : id <= other]

\* the step at hand returns -1: a step without "-> n" that does not raise
ReturnsNoId ==
  /\ machine.state = "running"
  /\ CurrentStep.type \in {"SAVE_ROW", "LOG", "EXTRACT", "CLICK", "GOTO_URL"}
  /\ CurrentStep.next_step_id = 0 - 1
  /\ machine' # machine /\ machine'.error # "Exception"

\* C38: when a step of the legacy StackMachine returns -1 the machine goes on
\* with the existing step of the smallest id above the current one, passing
\* over ids without a step, and raises 'No next step found' only when there
\* is none up to id 1000; execute_steps returns exactly when an END step
\* becomes current; each SAVE_ROW appends the current row to data and starts
\* a fresh one
C38_NextStepSkipsGaps ==
  /\ [][ReturnsNoId =>
          /\ machine'.error = NextExisting(machine.steps_by_id, CurrentStep.id + 1).error
          /\ machine'.current_step =
               NextExisting(machine.steps_by_id, CurrentStep.id + 1).current_step]_vars
  /\ [][(machine.state = "running" /\ machine' # machine) =>
          (machine'.state = "returned" <=> CurrentStep.type = "END")]_vars
  /\ [][(machine.state = "running" /\ CurrentStep.type = "SAVE_ROW" /\ machine' # machine) =>
          (machine'.data = Append(machine.data, machine.current_row)
             /\ machine'.current_row = <<>>)]_vars

====
